---- MODULE Spec2Model ----
(***************************************************************************)
(* A model of pyars: declarative command line arguments.  A container is   *)
(* a record type whose fields carry argument descriptors; parse_args       *)
(* builds an argparse parser from the descriptors, pre-validates the raw   *)
(* vector, tokenizes it and extracts a typed instance.                     *)
(*                                                                         *)
(* The descriptor kinds are one tagged variant.  Command, Positional and   *)
(* Option follow src/pyars/argument/, the value-carrying Flag and the      *)
(* Switch follow src/pyars/argument_types.py, the container follows        *)
(* src/pyars/container.py.  The tokenizer is argparse, modelled to the     *)
(* extent the declared containers exercise it.                             *)
(***************************************************************************)
EXTENDS Integers, Sequences, FiniteSets, TLC

(***************************************************************************)
(* Bounds of the model.                                                    *)
(***************************************************************************)
MaxArgv == 3

(***************************************************************************)
(* Text.                                                                   *)
(***************************************************************************)
StartsWith(s, p) == Len(s) >= Len(p) /\ SubSeq(s, 1, Len(p)) = p

EndsWith(s, p) == Len(s) >= Len(p) /\ SubSeq(s, Len(s) - Len(p) + 1, Len(s)) = p

Contains(s, p) == \E i \in 1..(Len(s) - Len(p) + 1) : SubSeq(s, i, i + Len(p) - 1) = p

\* the least index at which p occurs in s, 0 when it does not
IndexOf(s, p) ==
    IF \E i \in 1..(Len(s) - Len(p) + 1) : SubSeq(s, i, i + Len(p) - 1) = p
    THEN CHOOSE i \in 1..(Len(s) - Len(p) + 1) :
            /\ SubSeq(s, i, i + Len(p) - 1) = p
            /\ \A j \in 1..(i - 1) : SubSeq(s, j, j + Len(p) - 1) # p
    ELSE 0

RECURSIVE to_console_name(_)
to_console_name(name) ==
    IF Len(name) = 0 THEN ""
    ELSE (IF SubSeq(name, 1, 1) = "_" THEN "-" ELSE SubSeq(name, 1, 1))
            \o to_console_name(SubSeq(name, 2, Len(name)))

Digits == <<"0", "1", "2", "3", "4", "5", "6", "7", "8", "9">>

IsDigit(c) == \E d \in 1..10 : Digits[d] = c

DigitVal(c) == (CHOOSE d \in 1..10 : Digits[d] = c) - 1

IsDecimal(s) == Len(s) > 0 /\ \A i \in 1..Len(s) : IsDigit(SubSeq(s, i, i))

RECURSIVE ParseDecimal(_)
ParseDecimal(s) ==
    IF Len(s) = 0 THEN 0
    ELSE 10 * ParseDecimal(SubSeq(s, 1, Len(s) - 1)) + DigitVal(SubSeq(s, Len(s), Len(s)))

RECURSIVE FormatDecimal(_)
FormatDecimal(n) ==
    IF n < 10 THEN Digits[n + 1]
    ELSE FormatDecimal(n \div 10) \o Digits[(n % 10) + 1]

(***************************************************************************)
(* Python values, tagged by their type.                                    *)
(***************************************************************************)
VNone == [t |-> "NoneType"]
VStr(s) == [t |-> "str", v |-> s]
VInt(n) == [t |-> "int", v |-> n]
VBool(b) == [t |-> "bool", v |-> b]
VPath(s) == [t |-> "Path", v |-> s]
VList(q) == [t |-> "list", v |-> q]
VTuple(q) == [t |-> "tuple", v |-> q]
VSet(q) == [t |-> "set", v |-> {q[i] : i \in 1..Len(q)}]
VInst(c, kw) == [t |-> "instance", cls |-> c, v |-> kw]
\* the member named n of the Enum type e
VEnum(e, n) == [t |-> "enum", cls |-> e, v |-> n]
\* attrs.NOTHING: no value supplied
NOTHING == [t |-> "NOTHING"]

\* the outcome of a call: a returned value or a raised exception
Ok(v) == [ok |-> TRUE, val |-> v]
Raise(exc, msg) == [ok |-> FALSE, exc |-> exc, msg |-> msg]

(***************************************************************************)
(* Declared types.  A field's annotation is a type object (a plain type, a *)
(* parameterized generic, a union) or, under postponed evaluation, the     *)
(* annotation's text.                                                      *)
(***************************************************************************)
TNone == [k |-> "none", name |-> "", arg |-> ""]
Ty(n) == [k |-> "type", name |-> n, arg |-> ""]
Generic(o, a) == [k |-> "generic", name |-> o, arg |-> a]
UnionOf(a, b) == [k |-> "union", name |-> a, arg |-> b]
Text(s) == [k |-> "string", name |-> s, arg |-> ""]

ALLOWED_NAMES ==
    {"int", "float", "bool", "list", "tuple", "set", "frozenset", "bytes",
     "bytearray", "str", "Path"}

COLLECTION_TYPES == {"list", "set", "tuple"}

\* the builtins of ALLOWED_NAMES that accept a subscript
Subscriptable == {"list", "tuple", "set", "frozenset"}

\* evaluation of an annotation's text in the namespace ALLOWED_NAMES:
\* a name, name[name] or name | name; anything else fails to evaluate
EvalSubscript(o, a) ==
    IF o \in Subscriptable /\ a \in ALLOWED_NAMES THEN Generic(o, a) ELSE TNone

EvalUnion(a, b) ==
    IF a \in ALLOWED_NAMES \cup {"None"} /\ b \in ALLOWED_NAMES \cup {"None"}
    THEN UnionOf(a, b) ELSE TNone

EvalAt(text, lb, bar) ==
    IF text \in ALLOWED_NAMES THEN Ty(text)
    ELSE IF lb > 1 /\ EndsWith(text, "]")
    THEN EvalSubscript(SubSeq(text, 1, lb - 1), SubSeq(text, lb + 1, Len(text) - 1))
    ELSE IF bar > 1
    THEN EvalUnion(SubSeq(text, 1, bar - 1), SubSeq(text, bar + 3, Len(text)))
    ELSE TNone

EvalAnnotation(text) == EvalAt(text, IndexOf(text, "["), IndexOf(text, " | "))

resolve_annotation(annotation) ==
    IF annotation \in ALLOWED_NAMES THEN Ty(annotation)
    ELSE EvalAnnotation(annotation)

resolve_type(attr) ==
    IF attr.type.k = "string" THEN resolve_annotation(attr.type.name)
    ELSE attr.type

get_origin(annotation) ==
    IF annotation.k = "generic" THEN annotation.name ELSE ""

\* the container constructor of a resolved type, "" when it is no collection
\* a factory that builds a list whatever the annotation's origin
collection_factory_list(resolved) == "list"

collection_factory(resolved) ==
    IF get_origin(resolved) \in COLLECTION_TYPES THEN get_origin(resolved)
    ELSE IF resolved.k = "type" /\ resolved.name \in COLLECTION_TYPES THEN resolved.name
    ELSE ""

element_type(resolved) ==
    IF get_origin(resolved) \in COLLECTION_TYPES
    THEN (IF resolved.arg = "" THEN TNone ELSE Ty(resolved.arg))
    ELSE resolved

\* a converter that takes the first member of a union
ConverterOf_first_of_union(element) ==
    IF element.k = "none" \/ (element.k = "type" /\ element.name = "Any") THEN ""
    ELSE element.name

\* the name of the converter callable, "" for no converter
ConverterOf(element) ==
    IF element.k = "none" \/ (element.k = "type" /\ element.name = "Any") THEN ""
    ELSE IF element.k = "union" THEN ""
    ELSE element.name

element_converter(self, attr) ==
    IF self.convert # "" THEN self.convert
    ELSE ConverterOf(element_type(resolve_type(attr)))

(***************************************************************************)
(* Converters: what calling a type or a supplied callable on a value does. *)
(***************************************************************************)
Truthy(x) ==
    CASE x.t = "NoneType" -> FALSE
      [] x.t = "bool" -> x.v
      [] x.t = "int" -> x.v # 0
      [] x.t = "str" -> Len(x.v) > 0
      [] x.t \in {"list", "tuple"} -> Len(x.v) > 0
      [] x.t = "set" -> x.v # {}
      [] OTHER -> TRUE

Repr(x) ==
    CASE x.t = "str" -> x.v
      [] x.t = "Path" -> x.v
      [] x.t = "int" -> FormatDecimal(x.v)
      [] x.t = "bool" -> (IF x.v THEN "True" ELSE "False")
      [] x.t = "NoneType" -> "None"
      [] x.t = "enum" -> x.cls \o "." \o x.v
      [] OTHER -> "<" \o x.t \o ">"

\* mark is a callable a declaration supplies as convert=: def mark(t): return
\* str(t) + "!", which is not idempotent
Call(conv, x) ==
    CASE conv = "str" -> Ok(VStr(Repr(x)))
      [] conv = "int" ->
            (CASE x.t = "int" -> Ok(x)
               [] x.t = "bool" -> Ok(VInt(IF x.v THEN 1 ELSE 0))
               [] x.t = "str" -> (IF IsDecimal(x.v) THEN Ok(VInt(ParseDecimal(x.v)))
                                  ELSE Raise("ValueError", "invalid literal for int()"))
               [] OTHER -> Raise("TypeError", "int() argument"))
      [] conv = "Path" ->
            (CASE x.t = "Path" -> Ok(x)
               [] x.t = "str" -> Ok(VPath(x.v))
               [] OTHER -> Raise("TypeError", "expected str, bytes or os.PathLike object"))
      [] conv = "bool" -> Ok(VBool(Truthy(x)))
      [] conv = "mark" -> Ok(VStr(Repr(x) \o "!"))
      [] OTHER -> Raise("TypeError", "object is not callable")

(***************************************************************************)
(* Argument descriptors.  One record shape for every kind; a parameter a   *)
(* kind does not have keeps its unset value ("" stands for None).          *)
(***************************************************************************)
Desc0 ==
    [kind |-> "NOTHING", nargs |-> "", convert |-> "", type |-> "",
     default |-> NOTHING, opts |-> <<>>, extra_opts |-> {}, env_var |-> "",
     name |-> "", enable |-> TRUE, disable |-> TRUE, options |-> <<>>,
     required |-> "", enum |-> "", delimiter |-> "", item_type |-> "",
     container |-> ""]

\* argument/positional.py: positional(nargs=..., convert=..., default=...)
positional(nargs, convert, default) ==
    [Desc0 EXCEPT !.kind = "Positional", !.nargs = nargs, !.convert = convert,
                  !.default = default]

\* argument_types.py: PositionalArgument(), what get_arguments substitutes
OldPositional == [Desc0 EXCEPT !.kind = "OldPositional"]

\* argument_types.py: FlagArgument(opts..., type=..., default=..., env_var=...)
vflag(opts, type, default, env_var) ==
    [Desc0 EXCEPT !.kind = "Flag", !.opts = opts, !.type = type,
                  !.default = default, !.env_var = env_var]

\* argument_types.py: SwitchArgument(name, enable, disable, default, env_var=...)
switch(name, enable, disable, default, env_var) ==
    [Desc0 EXCEPT !.kind = "Switch", !.name = name, !.enable = enable,
                  !.disable = disable, !.default = VBool(default), !.env_var = env_var]

\* argument/option.py: OptionArgument(names..., convert=..., default=..., required=...);
\* required is "" (None), "True" or "False"
option(names, convert, default, required) ==
    [Desc0 EXCEPT !.kind = "Option", !.opts = names, !.convert = convert,
                  !.default = default, !.required = required]

\* argument/flag.py: the boolean FlagArgument(names..., default=...)
flag(names, default) ==
    [Desc0 EXCEPT !.kind = "BoolFlag", !.opts = names, !.default = VBool(Truthy(default))]

\* argument_types.py: EnumArgument(enum, default=...)
enum(e, default) == [Desc0 EXCEPT !.kind = "Enum", !.enum = e, !.default = default]

\* argument_types.py: ListArgument(delimiter=..., item_type=..., container=..., env_var=...)
list_argument(delimiter, item_type, container, default, env_var) ==
    [Desc0 EXCEPT !.kind = "List", !.delimiter = delimiter, !.item_type = item_type,
                  !.container = container, !.default = default, !.env_var = env_var]

\* argument/command.py: a CommandArgument whose self.options is the mapping options,
\* in the mapping's order
command(options) == [Desc0 EXCEPT !.kind = "Command", !.options = options]

\* an entry of a branch mapping: the name and the value mapped to it.  A value
\* is named: a container, or "int" (a type that is no container), or "'x'"
\* (a string, no type at all)
Branch(n, c) == [name |-> n, cls |-> c]

\* the values of the parameter extra: None, a dict, or a type passed by mistake
NoExtra == [k |-> "NoneType"]
ExtraDict(items) == [k |-> "dict", items |-> items]
ExtraType(name) == [k |-> "type", name |-> name]

\* a value a class statement can hold as a field's default without it being a
\* descriptor
plain(v) == [Desc0 EXCEPT !.kind = "value", !.default = v]

ArgumentTypes ==
    {"Positional", "OldPositional", "Flag", "Switch", "Command", "Option", "BoolFlag",
     "Enum", "List"}

\* attrs.Attribute: a declared field, its annotation and its default
Attribute(name, type, default) == [name |-> name, type |-> type, default |-> default]

(***************************************************************************)
(* argument/command.py: the construction of a Command descriptor in a      *)
(* class body.  The validation of the keyword branches is made of assert   *)
(* statements, which run only when __debug__ holds.                        *)
(***************************************************************************)
\* the classes @arguments has produced by the time a Command is constructed
BoundContainers ==
    {"BuildArguments", "CleanArguments", "ConsoleArguments", "EnvArguments",
     "NumberArguments", "WordArguments", "FastArguments", "SlowArguments",
     "ModeArguments", "ToolArguments", "LimitArguments"}

\* isinstance(value, type) and issubclass(value, ArgumentContainer)
IsContainerType(value) == value \in BoundContainers

\* _validate_container_type(value)
validate_container_type(debug, value) ==
    IF debug /\ ~IsContainerType(value)
    THEN Raise("AssertionError",
               "value is not an ArgumentContainer subclass (define with @arguments): "
                   \o "<class '" \o value \o "'>")
    ELSE Ok(VNone)

\* for key, value in kwargs.items(): _validate_container_type(value)
RECURSIVE ValidateKwargs(_, _, _)
ValidateNext(debug, kwargs, k, r) ==
    IF ~r.ok THEN r ELSE ValidateKwargs(debug, kwargs, k + 1)

ValidateKwargs(debug, kwargs, k) ==
    IF k > Len(kwargs) THEN Ok(VNone)
    ELSE ValidateNext(debug, kwargs, k, validate_container_type(debug, kwargs[k].cls))

\* mapping.update(kwargs): a key already present keeps its place and takes
\* the new value, a new key goes to the end
RECURSIVE Update(_, _)
Update(mapping, kwargs) ==
    IF kwargs = <<>> THEN mapping
    ELSE Update(IF \E j \in 1..Len(mapping) : mapping[j].name = kwargs[1].name
                THEN [j \in 1..Len(mapping) |->
                         IF mapping[j].name = kwargs[1].name THEN kwargs[1] ELSE mapping[j]]
                ELSE Append(mapping, kwargs[1]),
                Tail(kwargs))

Checked(r, extra, kwargs) ==
    IF ~r.ok THEN r
    ELSE Ok(command(Update(IF extra.k = "dict" THEN extra.items ELSE <<>>, kwargs)))

\* CommandArgument.__init__(extra, **kwargs)
CommandArgument_init(debug, extra, kwargs) ==
    IF extra.k = "type"
    THEN Raise("TypeError", "extra is not allowed as a command name")
    ELSE Checked(ValidateKwargs(debug, kwargs, 1), extra, kwargs)

\* a dict at module level, as written there, which the bodies of two classes
\* pass as extra, each with a keyword branch of its own
COMMON == <<Branch("clean", "CleanArguments")>>

FirstKwargs == <<Branch("build", "BuildArguments")>>

SecondKwargs == <<Branch("word", "WordArguments")>>

\* the classes whose body passes COMMON as extra, in the order of their
\* class statements
PassesCommon == {"FirstArguments", "SecondArguments"}

\* the caller's mapping once the constructor has returned: extra.update(kwargs)
\* is applied to the object the caller passed
extra_after(extra, kwargs) == Update(extra, kwargs)

\* COMMON at the time the class body of c runs
CommonBefore(c) ==
    IF c = "SecondArguments" THEN extra_after(COMMON, FirstKwargs) ELSE COMMON

\* the call of the constructor in the body of the class statement of c
CommandCall(c) ==
    CASE c = "ConsoleArguments" ->
            [extra |-> NoExtra,
             kwargs |-> <<Branch("build", "BuildArguments"),
                          Branch("clean", "CleanArguments")>>]
      [] c = "ModeArguments" ->
            [extra |-> NoExtra,
             kwargs |-> <<Branch("fast", "FastArguments"),
                          Branch("slow", "SlowArguments")>>]
      [] c = "ToolArguments" ->
            [extra |-> NoExtra, kwargs |-> <<Branch("run", "ModeArguments")>>]
      [] c = "DryArguments" ->
            [extra |-> NoExtra,
             kwargs |-> <<Branch("fast", "FastArguments"), Branch("slow", "SlowArguments")>>]
      [] c = "FirstArguments" ->
            [extra |-> ExtraDict(CommonBefore(c)), kwargs |-> FirstKwargs]
      [] c = "SecondArguments" ->
            [extra |-> ExtraDict(CommonBefore(c)), kwargs |-> SecondKwargs]
      [] c = "OuterArguments" ->
            [extra |-> NoExtra, kwargs |-> <<Branch("limit", "LimitArguments")>>]
      [] c = "LooseArguments" ->
            [extra |-> ExtraDict(<<Branch("x", "int")>>),
             kwargs |-> <<Branch("build", "BuildArguments")>>]
      [] c = "StrictArguments" ->
            [extra |-> NoExtra, kwargs |-> <<Branch("x", "int")>>]
      [] OTHER -> [extra |-> ExtraType("none"), kwargs |-> <<>>]

\* the classes whose body constructs a Command descriptor
WithCommand ==
    {"ConsoleArguments", "ModeArguments", "ToolArguments", "OuterArguments",
     "DryArguments", "FirstArguments", "SecondArguments", "LooseArguments",
     "StrictArguments"}

\* the descriptor the constructor returns when no assertion stops it, which
\* the class of c then holds as the default of its field
Constructed(c) == CommandArgument_init(FALSE, CommandCall(c).extra, CommandCall(c).kwargs).val

(***************************************************************************)
(* The declared containers (classes decorated with @arguments): those of   *)
(* src/tests, cut down to the fields that matter here, and a nesting of    *)
(* two Command fields.                                                     *)
(***************************************************************************)
BuildArguments ==
    << Attribute("projects", Generic("set", "Path"), positional("+", "", NOTHING)),
       Attribute("verbose", Ty("bool"), switch("", TRUE, TRUE, FALSE, "")),
       Attribute("colorize_output", Ty("bool"), switch("colorize", TRUE, TRUE, FALSE, "")) >>

CleanArguments ==
    << Attribute("root", Ty("str"), positional("", "", NOTHING)),
       Attribute("verbose", Ty("bool"), switch("", TRUE, TRUE, FALSE, "")),
       Attribute("force", Ty("bool"), switch("", TRUE, FALSE, FALSE, "")) >>

ConsoleArguments ==
    << Attribute("root", Ty("Path"), Desc0),
       Attribute("verbose", Ty("bool"), switch("", TRUE, TRUE, FALSE, "")),
       Attribute("command", Ty("Arguments"), Constructed("ConsoleArguments")) >>

EnvArguments ==
    << Attribute("level", Ty("int"), vflag(<<>>, "int", VInt(1), "COUNT_VAR")),
       Attribute("count", Ty("int"), vflag(<<>>, "int", NOTHING, "COUNT_VAR")),
       Attribute("opt", UnionOf("str", "None"), vflag(<<>>, "", VNone, "")) >>

NumberArguments ==
    << Attribute("values", Text("tuple[int]"), positional("+", "", NOTHING)) >>

WordArguments ==
    << Attribute("words", Generic("list", "str"), positional("+", "", NOTHING)),
       Attribute("loud", Ty("bool"), switch("", TRUE, TRUE, TRUE, "")) >>

FastArguments ==
    << Attribute("dry", Ty("bool"), switch("", TRUE, TRUE, FALSE, "")) >>

SlowArguments ==
    << Attribute("dry", Ty("bool"), switch("", TRUE, TRUE, FALSE, "")) >>

ModeArguments ==
    << Attribute("mode", Ty("Arguments"), Constructed("ModeArguments")) >>

ToolArguments ==
    << Attribute("tool", Ty("Arguments"), Constructed("ToolArguments")) >>

UnknownArgs ==
    << Attribute("other", Text("Unknown"), Desc0),
       Attribute("stuff", Text("Unknown"), positional("", "", NOTHING)),
       Attribute("either", UnionOf("int", "str"), positional("", "", NOTHING)) >>

ExtraArguments ==
    << Attribute("mode", Ty("Mode"), enum("Mode", VEnum("Mode", "release"))),
       Attribute("level", Ty("Level"), enum("Level", VEnum("Level", "low"))) >>

TagArguments ==
    << Attribute("tags", Generic("list", "str"),
                 list_argument(",", "str", "list", NOTHING, "EXTRA_TAGS")),
       Attribute("uniq", Generic("set", "str"),
                 list_argument(",", "str", "set", VSet(<<>>), "")) >>

SwitchArguments ==
    << Attribute("enabled", Ty("bool"), switch("", TRUE, TRUE, FALSE, "SWITCH_VAR")),
       Attribute("quiet", Ty("bool"), switch("", FALSE, TRUE, TRUE, "")) >>

HiddenArguments ==
    << Attribute("hidden", Ty("bool"), switch("", FALSE, FALSE, FALSE, "")) >>

OptionArguments ==
    << Attribute("count", Text("int"), option(<<"-c">>, "", NOTHING, "")),
       Attribute("size", Ty("int"), option(<<"--sz">>, "", VInt(1), "")),
       Attribute("limit", Text("int | None"), option(<<>>, "", NOTHING, "False")) >>

DepthArguments ==
    << Attribute("depth", Ty("int"), option(<<>>, "", VInt(2), "True")) >>

FlagArguments ==
    << Attribute("root", Ty("Path"),
                 [vflag(<<>>, "", VStr("cwd"), "") EXCEPT !.extra_opts = {"--root-path"}]),
       Attribute("quick", Text("bool"), flag(<<"-q">>, VBool(FALSE))) >>

ShortArguments ==
    << Attribute("root", Ty("Path"), vflag(<<"-r">>, "", NOTHING, "")) >>

\* an option that may be left out and has no default, before a boolean flag
LimitArguments ==
    << Attribute("limit", Ty("int"), option(<<>>, "", NOTHING, "False")),
       Attribute("after", Ty("bool"), flag(<<>>, VBool(FALSE))) >>

\* collection-typed options: one that may be left out, one whose default is a
\* tuple of texts, one whose default is a set
CollectArguments ==
    << Attribute("nums", Generic("tuple", "int"), option(<<>>, "", NOTHING, "False")),
       Attribute("pair", Generic("list", "int"),
                 option(<<>>, "", VTuple(<<VStr("1"), VStr("2")>>), "")),
       Attribute("uniq", Text("tuple[str]"), option(<<>>, "", VSet(<<VStr("a")>>), "")) >>

\* a Command field with a field declared after it
OuterArguments ==
    << Attribute("command", Ty("Arguments"), Constructed("OuterArguments")),
       Attribute("tail", Ty("bool"), switch("", TRUE, TRUE, FALSE, "")) >>

DryArguments ==
    << Attribute("dry", Ty("bool"), switch("", TRUE, TRUE, FALSE, "")),
       Attribute("mode", Ty("Arguments"), Constructed("DryArguments")) >>

MarkArguments ==
    << Attribute("word", Ty("str"), positional("", "mark", NOTHING)),
       Attribute("tag", Ty("str"), option(<<>>, "mark", VStr("d"), "")) >>

FirstArguments ==
    << Attribute("command", Ty("Arguments"), Constructed("FirstArguments")) >>

SecondArguments ==
    << Attribute("command", Ty("Arguments"), Constructed("SecondArguments")) >>

LooseArguments ==
    << Attribute("command", Ty("Arguments"), Constructed("LooseArguments")) >>

StrictArguments ==
    << Attribute("command", Ty("Arguments"), Constructed("StrictArguments")) >>

PlainArguments ==
    << Attribute("root", Ty("str"), positional("", "", NOTHING)),
       Attribute("level", Ty("int"), plain(VInt(3))) >>

MisorderedArguments ==
    << Attribute("verbose", Ty("bool"), switch("", TRUE, TRUE, FALSE, "")),
       Attribute("root", Ty("Path"), Desc0) >>

\* the classes whose class statement is executed, and on which parse_args is
\* called if that leaves a class
Containers ==
    {"BuildArguments", "CleanArguments", "ConsoleArguments", "EnvArguments",
     "NumberArguments", "WordArguments", "ToolArguments", "UnknownArgs",
     "ExtraArguments", "TagArguments", "SwitchArguments", "HiddenArguments",
     "OptionArguments", "DepthArguments", "FlagArguments", "ShortArguments",
     "LimitArguments", "OuterArguments", "CollectArguments", "MarkArguments",
     "DryArguments", "FirstArguments",
     "SecondArguments", "LooseArguments", "StrictArguments", "PlainArguments", "MisorderedArguments"}

\* attrs.fields(cls)
fields(cls) ==
    CASE cls = "BuildArguments" -> BuildArguments
      [] cls = "CleanArguments" -> CleanArguments
      [] cls = "ConsoleArguments" -> ConsoleArguments
      [] cls = "EnvArguments" -> EnvArguments
      [] cls = "NumberArguments" -> NumberArguments
      [] cls = "WordArguments" -> WordArguments
      [] cls = "FastArguments" -> FastArguments
      [] cls = "SlowArguments" -> SlowArguments
      [] cls = "ModeArguments" -> ModeArguments
      [] cls = "ToolArguments" -> ToolArguments
      [] cls = "UnknownArgs" -> UnknownArgs
      [] cls = "ExtraArguments" -> ExtraArguments
      [] cls = "TagArguments" -> TagArguments
      [] cls = "SwitchArguments" -> SwitchArguments
      [] cls = "HiddenArguments" -> HiddenArguments
      [] cls = "OptionArguments" -> OptionArguments
      [] cls = "DepthArguments" -> DepthArguments
      [] cls = "FlagArguments" -> FlagArguments
      [] cls = "ShortArguments" -> ShortArguments
      [] cls = "LimitArguments" -> LimitArguments
      [] cls = "OuterArguments" -> OuterArguments
      [] cls = "CollectArguments" -> CollectArguments
      [] cls = "MarkArguments" -> MarkArguments
      [] cls = "DryArguments" -> DryArguments
      [] cls = "FirstArguments" -> FirstArguments
      [] cls = "SecondArguments" -> SecondArguments
      [] cls = "LooseArguments" -> LooseArguments
      [] cls = "StrictArguments" -> StrictArguments
      [] cls = "PlainArguments" -> PlainArguments
      [] cls = "MisorderedArguments" -> MisorderedArguments

\* ArgumentContainer.get_arguments: the pair made for one field
ArgumentOf(field, argument) ==
    IF argument.kind \notin ArgumentTypes
    THEN Raise("TypeError",
               "Use a argument type as a default value, not " \o Repr(argument.default))
    ELSE Ok([field |-> field, argument |-> argument])

\* a get_arguments that yields the fields last to first
get_argument_reversed(cls, i) ==
    ArgumentOf(fields(cls)[Len(fields(cls)) + 1 - i],
               fields(cls)[Len(fields(cls)) + 1 - i].default)

\* ArgumentContainer.get_arguments: the pair of the i-th field
get_argument(cls, i) ==
    ArgumentOf(fields(cls)[i],
               IF fields(cls)[i].default.kind \in {"NOTHING", "Ellipsis"}
               THEN OldPositional ELSE fields(cls)[i].default)

(***************************************************************************)
(* argument/value.py: conversion of raw values.                            *)
(***************************************************************************)
ConversionFailure(r, value) ==
    IF r.ok THEN r
    ELSE Raise("ValueError", "Failed to convert argument value " \o Repr(value))

apply_element_converter(value, converter) ==
    IF converter = "" THEN Ok(value)
    ELSE ConversionFailure(Call(converter, value), value)

\* list(value) of a set: some order of its elements
RECURSIVE SetToSeq(_)
SetToSeq(S) ==
    IF S = {} THEN <<>>
    ELSE (LET x == CHOOSE y \in S : TRUE IN <<x>> \o SetToSeq(S \ {x}))

\* the outcomes r of a comprehension's calls, in order: the first failure,
\* or else the list of the values
Collect(r) ==
    IF \E i \in DOMAIN r : ~r[i].ok
    THEN r[CHOOSE i \in DOMAIN r : ~r[i].ok /\ \A j \in 1..(i - 1) : r[j].ok]
    ELSE Ok([i \in DOMAIN r |-> r[i].val])

ConvertAll(items, converter) ==
    Collect([i \in 1..Len(items) |-> apply_element_converter(items[i], converter)])

\* an item list that takes None for a scalar
Items_without_null(value) ==
    CASE value.t \in {"list", "tuple"} -> value.v
      [] value.t = "set" -> SetToSeq(value.v)
      [] OTHER -> <<value>>

Items(value) ==
    CASE value.t = "NoneType" -> <<>>
      [] value.t \in {"list", "tuple"} -> value.v
      [] value.t = "set" -> SetToSeq(value.v)
      [] OTHER -> <<value>>

Materialize(factory, converted) ==
    IF ~converted.ok THEN converted
    ELSE CASE factory = "list" -> Ok(VList(converted.val))
           [] factory = "set" -> Ok(VSet(converted.val))
           [] factory = "tuple" -> Ok(VTuple(converted.val))

Coerce(factory, value, converter) ==
    IF factory = "" THEN apply_element_converter(value, converter)
    ELSE Materialize(factory, ConvertAll(Items(value), converter))

coerce_collection(self, attr, value, converter) ==
    Coerce(collection_factory(resolve_type(attr)), value, converter)

\* ValueArgument.destination / PositionalArgument.destination; "" stands for None
destination(self, prefix, attr) ==
    IF self.kind = "Positional" THEN "" ELSE prefix \o attr.name

get_default(self, attr) ==
    IF self.default = NOTHING THEN Ok(NOTHING)
    ELSE coerce_collection(self, attr, self.default, element_converter(self, attr))

(***************************************************************************)
(* argument_types.py: the converters of EnumArgument and ListArgument.  A   *)
(* converter is named by a string; the closures these two classes return   *)
(* are named after what they captured.                                     *)
(***************************************************************************)
EnumMember(n, v) == [name |-> n, value |-> v]

EnumTypes == {"Mode", "Level"}

\* the members of an Enum type, in definition order
Members(e) ==
    CASE e = "Mode" -> <<EnumMember("debug", VInt(1)), EnumMember("release", VInt(2))>>
      [] e = "Level" -> <<EnumMember("low", VStr("l")), EnumMember("high", VStr("h"))>>

\* sep.join(names)
RECURSIVE Join(_, _)
Join(names, sep) ==
    IF Len(names) = 0 THEN ""
    ELSE IF Len(names) = 1 THEN names[1]
    ELSE names[1] \o sep \o Join(Tail(names), sep)

\* EnumArgument.get_converter: convert(value) for the Enum type e
Enum_convert(e, members, value) ==
    IF value.t = "enum" /\ value.cls = e THEN Ok(value)
    ELSE IF \E k \in 1..Len(members) : VStr(members[k].name) = value
    THEN Ok(VEnum(e, value.v))
    ELSE IF \E k \in 1..Len(members) : members[k].value = value
    THEN Ok(VEnum(e, members[CHOOSE k \in 1..Len(members) :
                                /\ members[k].value = value
                                /\ \A j \in 1..(k - 1) : members[j].value # value].name))
    ELSE Raise("ValueError",
               "Expected one of "
                   \o Join([k \in 1..Len(members) |-> members[k].name], ", ")
                   \o ", got " \o Repr(value))

\* value.split(delimiter)
RECURSIVE split(_, _)
SplitAt(s, d, i) ==
    IF i = 0 THEN <<s>>
    ELSE <<SubSeq(s, 1, i - 1)>> \o split(SubSeq(s, i + Len(d), Len(s)), d)

split(s, d) == SplitAt(s, d, IndexOf(s, d))

\* [conv(v) for v in items]
ConvertItems(items, conv) ==
    Collect([i \in 1..Len(items) |->
                IF conv = "" THEN Ok(VStr(items[i])) ELSE Call(conv, VStr(items[i]))])

\* a conversion that splits the empty string like any other
List_convert_split_always(c, value) ==
    Materialize(c.container, ConvertItems(split(value.v, c.delimiter), c.item_type))

\* ListArgument.get_converter: convert(value) for the captured parameters c
List_convert(c, value) ==
    Materialize(c.container,
                ConvertItems(IF value.v = "" THEN <<>> ELSE split(value.v, c.delimiter),
                             c.item_type))

\* the parameters a ListArgument's converter can capture
ListClosures == [delimiter : {",", ":"}, item_type : {"", "str", "int"}, container : {"list", "set"}]

Enum_converter(e) == e \o ".convert"

List_converter(c) ==
    "convert(" \o c.delimiter \o " " \o c.item_type \o " " \o c.container \o ")"

\* converter(value), for a type or for one of the closures
Convert(conv, value) ==
    IF \E e \in EnumTypes : Enum_converter(e) = conv
    THEN Enum_convert(CHOOSE e \in EnumTypes : Enum_converter(e) = conv,
                      Members(CHOOSE e \in EnumTypes : Enum_converter(e) = conv), value)
    ELSE IF \E c \in ListClosures : List_converter(c) = conv
    THEN List_convert(CHOOSE c \in ListClosures : List_converter(c) = conv, value)
    ELSE Call(conv, value)

(***************************************************************************)
(* The tokenizer's registrations.  A parser is the sequence of its actions *)
(* in registration order; scope is the path of sub-parser names an action  *)
(* was registered under.                                                   *)
(***************************************************************************)
Kwargs0 ==
    [dest |-> "", nargs |-> "", type |-> "", default |-> NOTHING,
     required |-> "", action |-> "store"]

Action0 ==
    [scope |-> <<>>, positional |-> FALSE, option_strings |-> {}, dest |-> "",
     action |-> "store", nargs |-> "", type |-> "", default |-> VNone,
     required |-> FALSE, parsers |-> <<>>, owner |-> "", field |-> ""]

InScope(parser, scope) == {i \in 1..Len(parser) : parser[i].scope = scope}

\* the default argparse gives an action registered without one
ActionDefault(kwargs) ==
    IF kwargs.default # NOTHING THEN kwargs.default
    ELSE IF kwargs.action = "store_true" THEN VBool(FALSE)
    ELSE IF kwargs.action = "store_false" THEN VBool(TRUE)
    ELSE VNone

NewAction(scope, kwargs, owner, field) ==
    [Action0 EXCEPT !.scope = scope, !.action = kwargs.action, !.nargs = kwargs.nargs,
                    !.type = kwargs.type, !.default = ActionDefault(kwargs),
                    !.dest = kwargs.dest, !.owner = owner, !.field = field]

add_positional(parser, args, kwargs, base) ==
    IF args # {} /\ kwargs.dest # ""
    THEN Raise("ValueError", "dest supplied twice for positional argument")
    ELSE IF kwargs.required # ""
    THEN Raise("TypeError", "'required' is an invalid argument for positionals")
    ELSE Ok(Append(parser,
            [base EXCEPT !.positional = TRUE,
                         !.dest = IF args = {} THEN kwargs.dest ELSE CHOOSE a \in args : TRUE,
                         !.required = kwargs.nargs \notin {"?", "*"}]))

add_optional(parser, scope, args, kwargs, base) ==
    IF \E i \in 1..Len(parser) :
            parser[i].scope = scope /\ parser[i].option_strings \cap args # {}
    THEN Raise("ArgumentError", "conflicting option string")
    ELSE Ok(Append(parser,
            [base EXCEPT !.option_strings = args, !.required = kwargs.required = "True"]))

\* ArgumentParser.add_argument on the parser of scope, args the name arguments
\* (owner and field record the declaration the action was registered for)
add_argument(parser, scope, args, kwargs, owner, field) ==
    IF args = {} \/ (Cardinality(args) = 1 /\ \A a \in args : ~StartsWith(a, "-"))
    THEN add_positional(parser, args, kwargs, NewAction(scope, kwargs, owner, field))
    ELSE add_optional(parser, scope, args, kwargs, NewAction(scope, kwargs, owner, field))

\* add_argument with the kwargs a get_kwargs call produced, or its failure
add_argument_with(parser, scope, args, kwargs, owner, field) ==
    IF ~kwargs.ok THEN kwargs
    ELSE add_argument(parser, scope, args, kwargs.val, owner, field)

\* parser.add_subparsers(dest=...) followed by subparsers.required = ...
add_subparsers(parser, scope, dest, required, names, owner, field) ==
    IF \E i \in 1..Len(parser) : parser[i].scope = scope /\ parser[i].action = "parsers"
    THEN Raise("SystemExit", "cannot have multiple subparser arguments")
    ELSE Ok(Append(parser,
            [Action0 EXCEPT !.scope = scope, !.positional = TRUE, !.dest = dest,
                            !.action = "parsers", !.nargs = "A...",
                            !.required = required, !.parsers = names,
                            !.owner = owner, !.field = field]))

(***************************************************************************)
(* argument_types.py: the value arguments that read the environment.       *)
(* env maps a variable's name to <<>> (unset) or <<text>>.                 *)
(***************************************************************************)
EnvVars == {"COUNT_VAR", "EXTRA_TAGS", "SWITCH_VAR"}

getenv(env, name) == IF name \in DOMAIN env THEN env[name] ELSE <<>>

Keywords ==
    <<"int", "float", "bool", "list", "tuple", "set", "frozenset", "bytes",
      "bytearray", "str", "Path">>

\* ValueArgument.guess_converter: the first keyword the annotation starts with
guess_converter(text) ==
    IF \E i \in 1..Len(Keywords) : StartsWith(text, Keywords[i])
    THEN Ty(Keywords[CHOOSE i \in 1..Len(Keywords) :
                       /\ StartsWith(text, Keywords[i])
                       /\ \A j \in 1..(i - 1) : ~StartsWith(text, Keywords[j])])
    ELSE TNone

\* eval(attr.type, globals()), and on failure the guess
EvalOrGuess(evaluated, text) ==
    IF evaluated.k # "none" THEN evaluated ELSE guess_converter(text)

type_value(self, attr) ==
    IF self.type # "" THEN Ty(self.type)
    ELSE IF attr.type.k # "string" THEN attr.type
    ELSE EvalOrGuess(EvalAnnotation(attr.type.name), attr.type.name)

CallableOf(tv) == IF tv.k \in {"union", "none"} THEN "" ELSE tv.name

\* ValueArgument.get_converter of argument_types.py
Value_get_converter(self, attr) == CallableOf(type_value(self, attr))

\* the types that have __iter__
Iterables == {"list", "tuple", "set", "frozenset", "bytes", "bytearray", "str"}

Early(kind, conv) == IF kind = "OldPositional" /\ conv \in Iterables THEN "" ELSE conv

Late(kind, conv) == IF kind = "OldPositional" /\ conv \in Iterables THEN conv ELSE ""

\* self.get_converter(attr), by the descriptor's class
get_converter(self, attr) ==
    CASE self.kind = "Enum" -> Enum_converter(self.enum)
      [] self.kind = "List" ->
            List_converter([delimiter |-> self.delimiter, item_type |-> self.item_type,
                            container |-> self.container])
      [] OTHER -> Early(self.kind, Value_get_converter(self, attr))

get_late_converter(self, attr) == Late(self.kind, Value_get_converter(self, attr))

EnvFailure(r, env_var, raw) ==
    IF r.ok THEN r
    ELSE Raise("ValueError",
               "Invalid value for environment variable " \o env_var \o ": " \o raw.v)

ConvertEnv(conv, raw, env_var) ==
    IF conv = "" THEN Ok(raw) ELSE EnvFailure(Convert(conv, raw), env_var, raw)

get_env_default(self, attr, env) ==
    IF self.env_var = "" THEN Ok(NOTHING)
    ELSE IF getenv(env, self.env_var) = <<>> THEN Ok(NOTHING)
    ELSE ConvertEnv(get_converter(self, attr), VStr(getenv(env, self.env_var)[1]),
                    self.env_var)

OrFallback(env_default, fallback) ==
    IF ~env_default.ok THEN env_default
    ELSE IF env_default.val # NOTHING THEN env_default
    ELSE Ok(fallback)

resolve_default(self, attr, fallback, env) ==
    OrFallback(get_env_default(self, attr, env), fallback)

ValueKwargs(dest, nargs, type, env_default) ==
    IF ~env_default.ok THEN env_default
    ELSE Ok([Kwargs0 EXCEPT !.dest = dest, !.nargs = nargs, !.type = type,
                            !.default = env_default.val])

\* ValueArgument.get_kwargs of argument_types.py
Value_get_kwargs(self, prefix, attr, env) ==
    ValueKwargs(prefix \o attr.name, self.nargs, get_converter(self, attr),
                get_env_default(self, attr, env))

\* FlagArgument.get_console_names
get_console_names(self, attr) ==
    {"--" \o name :
        name \in {n \in (IF self.opts # <<>> THEN {self.opts[i] : i \in 1..Len(self.opts)}
                          ELSE {to_console_name(attr.name)}) \cup self.extra_opts :
                    ~StartsWith(n, "-")}}

FlagKwargs(self, kwargs) ==
    IF ~kwargs.ok THEN kwargs
    ELSE IF self.default # NOTHING
    THEN Ok([kwargs.val EXCEPT !.default = self.default, !.required = "False"])
    ELSE IF kwargs.val.default # NOTHING
    THEN Ok([kwargs.val EXCEPT !.required = "False"])
    ELSE Ok([kwargs.val EXCEPT !.required = "True"])

\* FlagArgument.get_kwargs
Flag_get_kwargs(self, prefix, attr, env) ==
    FlagKwargs(self, Value_get_kwargs(self, prefix, attr, env))

PositionalKwargs(dest, nargs, type, default) ==
    IF ~default.ok THEN default
    ELSE Ok([Kwargs0 EXCEPT !.dest = dest, !.nargs = nargs, !.type = type,
                            !.default = default.val])

\* ValueArgument.get_kwargs and PositionalArgument.get_kwargs of argument/
Positional_get_kwargs(self, prefix, attr) ==
    PositionalKwargs(destination(self, prefix, attr), self.nargs,
                     element_converter(self, attr), get_default(self, attr))

\* OptionArgument.get_kwargs with the required override ignored
OptionKwargs_without_override(self, kwargs) ==
    IF ~kwargs.ok THEN kwargs
    ELSE Ok([kwargs.val EXCEPT
                !.required = IF self.default = NOTHING THEN "True" ELSE "False"])

OptionKwargs(self, kwargs) ==
    IF ~kwargs.ok THEN kwargs
    ELSE Ok([kwargs.val EXCEPT
                !.required = IF self.required # "" THEN self.required
                             ELSE IF self.default = NOTHING THEN "True" ELSE "False"])

\* OptionArgument.get_kwargs
Option_get_kwargs(self, prefix, attr) ==
    OptionKwargs(self, Positional_get_kwargs(self, prefix, attr))

\* FlagArgument._option_names of argument/flag.py, OptionArgument.get_args
option_names(self, attr) ==
    {self.opts[i] : i \in 1..Len(self.opts)}
        \cup (IF \A i \in 1..Len(self.opts) : ~StartsWith(self.opts[i], "--")
              THEN {"--" \o to_console_name(attr.name)} ELSE {})

SwitchKwargs(dest, action, default) ==
    [Kwargs0 EXCEPT !.dest = dest, !.action = action, !.default = default]

SwitchDisable(self, p, scope, name, dest, default, owner, field) ==
    IF ~p.ok THEN p
    ELSE IF self.disable
    THEN add_argument(p.val, scope, {"--no-" \o name},
                      SwitchKwargs(dest, "store_false", default), owner, field)
    ELSE p

SwitchEnable(self, parser, scope, name, dest, default, owner, field) ==
    IF ~default.ok THEN default
    ELSE SwitchDisable(self,
            IF self.enable
            THEN add_argument(parser, scope, {"--" \o name},
                              SwitchKwargs(dest, "store_true", default.val), owner, field)
            ELSE Ok(parser),
            scope, name, dest, default.val, owner, field)

\* SwitchArgument.add_argument
Switch_add_argument(self, prefix, attr, parser, scope, env, owner) ==
    SwitchEnable(self, parser, scope,
                 IF self.name # "" THEN self.name ELSE to_console_name(attr.name),
                 prefix \o attr.name, resolve_default(self, attr, self.default, env),
                 owner, attr.name)

(***************************************************************************)
(* Registration of a container's fields, through the branches of its       *)
(* Command fields.                                                         *)
(***************************************************************************)
\* branches registered under their parent's prefix
branch_prefix_of_parent(prefix, attr) == prefix

\* the prefix a Command field hands to its branches
branch_prefix(prefix, attr) == prefix \o attr.name \o "-"

RECURSIVE add_arguments_from(_, _, _, _, _, _)
RECURSIVE Command_add_parsers(_, _, _, _, _, _, _)

NextParser(self, k, prefix, attr, sub, scope, env) ==
    IF ~sub.ok THEN sub
    ELSE Command_add_parsers(self, k + 1, prefix, attr, sub.val, scope, env)

\* a registration that hands each branch the field name alone, without the
\* prefix the Command field was itself given
Command_add_parsers_flat(self, k, prefix, attr, parser, scope, env) ==
    IF k > Len(self.options) THEN Ok(parser)
    ELSE IF ~IsContainerType(self.options[k].cls)
    THEN Raise("AttributeError", "type object has no attribute 'add_arguments'")
    ELSE NextParser(self, k, prefix, attr,
                    add_arguments_from(self.options[k].cls, 1, attr.name \o "-",
                                       parser, Append(scope, self.options[k].name), env),
                    scope, env)

\* CommandArgument.add_argument: the loop over self.options, from entry k
Command_add_parsers(self, k, prefix, attr, parser, scope, env) ==
    IF k > Len(self.options) THEN Ok(parser)
    ELSE IF ~IsContainerType(self.options[k].cls)
    THEN Raise("AttributeError",
               "type object '" \o self.options[k].cls
                   \o "' has no attribute 'add_arguments'")
    ELSE NextParser(self, k, prefix, attr,
                    add_arguments_from(self.options[k].cls, 1, branch_prefix(prefix, attr),
                                       parser, Append(scope, self.options[k].name), env),
                    scope, env)

FirstParser(self, prefix, attr, subparsers, scope, env) ==
    IF ~subparsers.ok THEN subparsers
    ELSE Command_add_parsers(self, 1, prefix, attr, subparsers.val, scope, env)

Command_add_argument(self, prefix, attr, parser, scope, env, owner) ==
    FirstParser(self, prefix, attr,
                add_subparsers(parser, scope, prefix \o attr.name, TRUE,
                               [k \in 1..Len(self.options) |-> self.options[k].name],
                               owner, attr.name),
                scope, env)

\* argument.add_argument(prefix, field, parser), by the descriptor's class
Argument_add_argument(self, prefix, attr, parser, scope, env, owner) ==
    CASE self.kind = "Switch" ->
            Switch_add_argument(self, prefix, attr, parser, scope, env, owner)
      [] self.kind = "Command" ->
            Command_add_argument(self, prefix, attr, parser, scope, env, owner)
      [] self.kind \in {"Flag", "Enum", "List"} ->
            add_argument_with(parser, scope, get_console_names(self, attr),
                              Flag_get_kwargs(self, prefix, attr, env), owner, attr.name)
      [] self.kind = "OldPositional" ->
            add_argument_with(parser, scope, {},
                              Value_get_kwargs(self, prefix, attr, env), owner, attr.name)
      [] self.kind = "Positional" ->
            add_argument_with(parser, scope, {attr.name},
                              Positional_get_kwargs(self, prefix, attr), owner, attr.name)
      [] self.kind = "Option" ->
            add_argument_with(parser, scope, option_names(self, attr),
                              Option_get_kwargs(self, prefix, attr), owner, attr.name)
      [] self.kind = "BoolFlag" ->
            add_argument(parser, scope, option_names(self, attr),
                         SwitchKwargs(prefix \o attr.name, "store_true", self.default),
                         owner, attr.name)

AddField(ga, prefix, parser, scope, env, cls) ==
    IF ~ga.ok THEN ga
    ELSE Argument_add_argument(ga.val.argument, prefix, ga.val.field, parser, scope,
                               env, cls)

AddRest(cls, i, prefix, r, scope, env) ==
    IF ~r.ok THEN r
    ELSE add_arguments_from(cls, i + 1, prefix, r.val, scope, env)

\* ArgumentContainer.add_arguments: the loop over get_arguments, from field i
add_arguments_from(cls, i, prefix, parser, scope, env) ==
    IF i > Len(fields(cls)) THEN Ok(parser)
    ELSE AddRest(cls, i, prefix,
                 AddField(get_argument(cls, i), prefix, parser, scope, env, cls),
                 scope, env)

add_arguments(cls, prefix, parser, scope, env) ==
    add_arguments_from(cls, 1, prefix, parser, scope, env)

\* ArgumentParser(): a parser with nothing registered
ArgumentParser == <<>>

(***************************************************************************)
(* The tokenizer: argparse's parse_args on a registered parser.  Every     *)
(* usage error ends the process (SystemExit), so a parse either yields a   *)
(* namespace or fails.  A namespace maps destination keys to raw values.   *)
(* Of argparse's positional matching the model keeps what the declared     *)
(* containers use: one-token positionals, a one-or-more positional that    *)
(* is the last of its parser, and a sub-parser choice.                     *)
(***************************************************************************)
setattr(ns, key, value) == (key :> value) @@ ns

hasattr(ns, key) == key \in DOMAIN ns

IsOptionLike(tok) == Len(tok) > 1 /\ StartsWith(tok, "-")

OptionStrings(parser, scope) ==
    UNION {parser[i].option_strings : i \in InScope(parser, scope)}

\* the option strings an option token selects among those of a scope: the
\* exact match, or else every long option string the token abbreviates
SelectedOf(strings, tok) ==
    IF tok \in strings THEN {tok}
    ELSE IF ~StartsWith(tok, "--") THEN {}
    ELSE {o \in strings : StartsWith(o, tok)}

Selected(parser, scope, tok) == SelectedOf(OptionStrings(parser, scope), tok)

ActionOf(parser, scope, o) ==
    CHOOSE i \in 1..Len(parser) : parser[i].scope = scope /\ o \in parser[i].option_strings

\* the number of leading tokens of args, from index i, that are no options
RECURSIVE RunLength(_, _)
RunLength(args, i) ==
    IF i > Len(args) \/ IsOptionLike(args[i]) THEN 0 ELSE 1 + RunLength(args, i + 1)

\* argparse's _get_value: the action's type applied to one argument string
get_value(action, arg_string) ==
    IF action.type = "" THEN Ok(VStr(arg_string)) ELSE Convert(action.type, VStr(arg_string))

ParseState0 == [ns |-> << >>, pos |-> <<>>, seen |-> {}, extras |-> <<>>, err |-> FALSE]

Failed(st) == [st EXCEPT !.err = TRUE]

\* a parse state and the index of the next token to consume
Moved(st, i) == [st |-> st, i |-> i]

\* the namespace's defaults: each action's default, for a key not yet set
RECURSIVE SetDefaults(_, _, _, _)
SetDefaults(parser, scope, i, ns) ==
    IF i > Len(parser) THEN ns
    ELSE SetDefaults(parser, scope, i + 1,
                     IF parser[i].scope = scope /\ ~hasattr(ns, parser[i].dest)
                     THEN setattr(ns, parser[i].dest, parser[i].default)
                     ELSE ns)

ConvertedDefault(st, dest, v) ==
    IF ~v.ok THEN Failed(st) ELSE [st EXCEPT !.ns = setattr(st.ns, dest, v.val)]

\* an action not seen: required is an error, and a string default still in
\* place is converted by the action's type
Unseen(st, action) ==
    IF action.required THEN Failed(st)
    ELSE IF action.default.t = "str" /\ hasattr(st.ns, action.dest)
            /\ st.ns[action.dest] = action.default
    THEN ConvertedDefault(st, action.dest, get_value(action, action.default.v))
    ELSE st

\* after the last token: the actions of the scope that were not seen
RECURSIVE Finish(_, _, _, _)
Finish(parser, scope, i, st) ==
    IF st.err \/ i > Len(parser) THEN st
    ELSE Finish(parser, scope, i + 1,
                IF parser[i].scope # scope \/ i \in st.seen THEN st
                ELSE Unseen(st, parser[i]))

RECURSIVE parse_known_args(_, _, _)

\* the action at index a takes value v and the parse moves to token i
Store(st, a, action, v, i) ==
    IF ~v.ok THEN Moved(Failed(st), i)
    ELSE Moved([st EXCEPT !.seen = st.seen \cup {a},
                          !.pos = IF action.positional THEN Tail(st.pos) ELSE st.pos,
                          !.ns = setattr(st.ns, action.dest, v.val)], i)

ListOf(values) == IF ~values.ok THEN values ELSE Ok(VList(values.val))

\* a one-or-more positional takes the n tokens from i
StoreRun(st, a, action, args, i, n) ==
    Store(st, a, action,
          ListOf(Collect([k \in 1..n |-> get_value(action, args[i + k - 1])])), i + n)

\* the sub-parser action: the chosen parser's namespace is copied over the
\* parent's, and what it did not recognise is handed up
SubParsed(st, a, action, name, sub, i) ==
    IF sub.err THEN Moved(Failed(st), i)
    ELSE Moved([st EXCEPT !.seen = st.seen \cup {a}, !.pos = Tail(st.pos),
                          !.ns = sub.ns @@ setattr(st.ns, action.dest, VStr(name)),
                          !.extras = st.extras \o sub.extras], i)

\* the positional action a at token i
ConsumePositional(parser, scope, args, i, st, a) ==
    CASE parser[a].action = "parsers" ->
            (IF \A k \in 1..Len(parser[a].parsers) : parser[a].parsers[k] # args[i]
             THEN Moved(Failed(st), i)
             ELSE SubParsed(st, a, parser[a], args[i],
                            parse_known_args(parser, Append(scope, args[i]),
                                             SubSeq(args, i + 1, Len(args))),
                            Len(args) + 1))
      [] parser[a].action # "parsers" /\ parser[a].nargs = "+" ->
            StoreRun(st, a, parser[a], args, i, RunLength(args, i))
      [] OTHER ->
            Store(st, a, parser[a], get_value(parser[a], args[i]), i + 1)

\* an optional that takes one argument, of which n tokens are available
StoreArgument(st, a, action, args, i, n) ==
    IF n = 0
    THEN (IF action.nargs = "?" THEN Store(st, a, action, Ok(VNone), i + 1)
          ELSE Moved(Failed(st), i))
    ELSE Store(st, a, action, get_value(action, args[i + 1]), i + 2)

\* the optional action a at token i
ConsumeOptional(parser, scope, args, i, st, a) ==
    CASE parser[a].action = "store_true" -> Store(st, a, parser[a], Ok(VBool(TRUE)), i + 1)
      [] parser[a].action = "store_false" -> Store(st, a, parser[a], Ok(VBool(FALSE)), i + 1)
      [] OTHER -> StoreArgument(st, a, parser[a], args, i, RunLength(args, i + 1))

Extra(st, tok, i) == Moved([st EXCEPT !.extras = Append(st.extras, tok)], i)

OptionToken(parser, scope, args, i, st, sel) ==
    IF sel = {} THEN Extra(st, args[i], i + 1)
    ELSE IF Cardinality(sel) > 1 THEN Moved(Failed(st), i)
    ELSE ConsumeOptional(parser, scope, args, i, st,
                         ActionOf(parser, scope, CHOOSE o \in sel : TRUE))

\* the token at index i is consumed
Consume(parser, scope, args, i, st) ==
    IF IsOptionLike(args[i])
    THEN OptionToken(parser, scope, args, i, st, Selected(parser, scope, args[i]))
    ELSE IF st.pos = <<>> THEN Extra(st, args[i], i + 1)
    ELSE ConsumePositional(parser, scope, args, i, st, Head(st.pos))

RECURSIVE ParseFrom(_, _, _, _)
ParseFrom(parser, scope, args, m) ==
    IF m.st.err \/ m.i > Len(args) THEN m.st
    ELSE ParseFrom(parser, scope, args, Consume(parser, scope, args, m.i, m.st))

\* the indices of a scope's positional actions, in registration order
RECURSIVE Positionals(_, _, _)
Positionals(parser, scope, i) ==
    IF i > Len(parser) THEN <<>>
    ELSE (IF parser[i].scope = scope /\ parser[i].positional THEN <<i>> ELSE <<>>)
         \o Positionals(parser, scope, i + 1)

parse_known_args(parser, scope, args) ==
    Finish(parser, scope, 1,
           ParseFrom(parser, scope, args,
                     Moved([ParseState0 EXCEPT !.ns = SetDefaults(parser, scope, 1, << >>),
                                               !.pos = Positionals(parser, scope, 1)], 1)))

Namespace(r) ==
    IF r.err \/ r.extras # <<>> THEN Raise("SystemExit", "usage") ELSE Ok(r.ns)

\* parser.parse_args(argv): the namespace, or the usage error that exits
parser_parse_args(parser, argv) == Namespace(parse_known_args(parser, <<>>, argv))

(***************************************************************************)
(* container.py: pre-validation of the raw vector.                         *)
(***************************************************************************)
InArgv(argv, tok) == \E i \in 1..Len(argv) : argv[i] = tok

\* argv.index(tok)
Index(argv, tok) ==
    CHOOSE i \in 1..Len(argv) : argv[i] = tok /\ \A j \in 1..(i - 1) : argv[j] # tok

enable_opt(name) == "--" \o name

disable_opt(name) == "--no-" \o name

\* the switch branch of pre_validate, for the tokens of one switch
SwitchConflict(cls, argument, argv, enable, disable) ==
    IF argument.enable /\ argument.disable /\ InArgv(argv, enable) /\ InArgv(argv, disable)
    THEN Raise("InvalidArgumentsError",
               cls \o ": options " \o enable \o " and " \o disable
                   \o " are mutually exclusive")
    ELSE Ok(VNone)

RECURSIVE pre_validate_from(_, _, _)

\* the branches of a Command field whose name occurs in argv
Present(argument, argv) ==
    {k \in 1..Len(argument.options) : InArgv(argv, argument.options[k].name)}

\* a command branch that validates the chosen container against the whole vector
FirstPresent_whole_vector(argument, argv, present) ==
    IF present = {} THEN Ok(VNone)
    ELSE pre_validate_from(
            argument.options[CHOOSE k \in present : \A j \in present : k <= j].cls, 1, argv)

\* the command branch of pre_validate: the first branch, in mapping order,
\* whose name occurs in argv validates what follows the name
FirstPresent(argument, argv, present) ==
    IF present = {} THEN Ok(VNone)
    ELSE IF ~IsContainerType(argument.options[CHOOSE k \in present :
                                                 \A j \in present : k <= j].cls)
    THEN Raise("AttributeError", "type object has no attribute 'pre_validate'")
    ELSE pre_validate_from(
            argument.options[CHOOSE k \in present : \A j \in present : k <= j].cls, 1,
            SubSeq(argv,
                   Index(argv, argument.options[CHOOSE k \in present :
                                                   \A j \in present : k <= j].name) + 1,
                   Len(argv)))

\* a pre-validation that derives the tokens from the field name only
pre_validate_field_by_field_name(cls, argument, field, argv) ==
    CASE argument.kind = "Switch" ->
            SwitchConflict(cls, argument, argv, enable_opt(to_console_name(field.name)),
                           disable_opt(to_console_name(field.name)))
      [] argument.kind = "Command" -> FirstPresent(argument, argv, Present(argument, argv))
      [] OTHER -> Ok(VNone)

pre_validate_field(cls, argument, field, argv) ==
    CASE argument.kind = "Switch" ->
            SwitchConflict(cls, argument, argv,
                enable_opt(IF argument.name # "" THEN argument.name
                           ELSE to_console_name(field.name)),
                disable_opt(IF argument.name # "" THEN argument.name
                            ELSE to_console_name(field.name)))
      [] argument.kind = "Command" -> FirstPresent(argument, argv, Present(argument, argv))
      [] OTHER -> Ok(VNone)

ValidateField(cls, ga, argv) ==
    IF ~ga.ok THEN ga ELSE pre_validate_field(cls, ga.val.argument, ga.val.field, argv)

ValidateRest(cls, i, r, argv) ==
    IF ~r.ok THEN r ELSE pre_validate_from(cls, i + 1, argv)

\* ArgumentContainer.pre_validate: the loop over get_arguments, from field i
pre_validate_from(cls, i, argv) ==
    IF i > Len(fields(cls)) THEN Ok(VNone)
    ELSE ValidateRest(cls, i, ValidateField(cls, get_argument(cls, i), argv), argv)

pre_validate(cls, argv) == pre_validate_from(cls, 1, argv)

(***************************************************************************)
(* Extraction of a typed instance from the namespace.  An extraction       *)
(* result is the outcome with the log of the extract calls made so far:    *)
(* which field of which container read which destination key.              *)
(***************************************************************************)
Extracted(out, log) == [out |-> out, log |-> log]

LogEntry(cls, attr, key) == [cls |-> cls, field |-> attr.name, key |-> key]

\* getattr(namespace, key)
getattr(ns, key) ==
    IF hasattr(ns, key) THEN Ok(ns[key])
    ELSE Raise("AttributeError", "'Namespace' object has no attribute '" \o key \o "'")

\* self.destination(prefix, attr) or attr.name
PreferredKey(dest, name) == IF dest # "" THEN dest ELSE name

ExistingKey(ns, key, name) == IF ~hasattr(ns, key) THEN name ELSE key

\* ValueArgument.extract of argument/value.py: the key it reads
Positional_key(self, prefix, attr, ns) ==
    ExistingKey(ns, PreferredKey(destination(self, prefix, attr), attr.name), attr.name)

CoerceRaw(self, attr, raw_value) ==
    IF ~raw_value.ok THEN raw_value
    ELSE coerce_collection(self, attr, raw_value.val, element_converter(self, attr))

\* ValueArgument.extract of argument/value.py, reading key
Positional_extract(self, cls, attr, ns, key, log) ==
    Extracted(CoerceRaw(self, attr, getattr(ns, key)), Append(log, LogEntry(cls, attr, key)))

LateConvert(conv, raw) ==
    IF ~raw.ok THEN raw
    ELSE IF conv = "" THEN raw
    ELSE Call(conv, raw.val)

\* ValueArgument.extract of argument_types.py
Value_extract(self, prefix, attr, ns) ==
    LateConvert(get_late_converter(self, attr), getattr(ns, prefix \o attr.name))

\* FlagArgument.extract of argument/flag.py
BoolOf(raw) == IF ~raw.ok THEN raw ELSE Ok(VBool(Truthy(raw.val)))

RECURSIVE namespace_to_dict_from(_, _, _, _, _, _)

Construct(cls, kwargs) ==
    IF ~kwargs.out.ok THEN kwargs
    ELSE Extracted(Ok(VInst(cls, kwargs.out.val)), kwargs.log)

\* ArgumentContainer.from_namespace: cls called with the dict of namespace_to_dict
from_namespace(cls, prefix, ns, log) ==
    Construct(cls, namespace_to_dict_from(cls, 1, prefix, ns, << >>, log))

\* an extraction that takes the first branch, whatever was selected
SelectedBranch_first(self, prefix, attr, ns, key, log) ==
    IF ~key.ok THEN Extracted(key, log)
    ELSE from_namespace(self.options[1].cls, branch_prefix(prefix, attr), ns, log)

SelectedBranch(self, prefix, attr, ns, key, log) ==
    IF ~key.ok THEN Extracted(key, log)
    ELSE IF key.val = VNone
    THEN Extracted(Raise("InvalidArgumentsError",
                         attr.name \o ": command selection is required"), log)
    ELSE IF \A k \in 1..Len(self.options) : VStr(self.options[k].name) # key.val
    THEN Extracted(Raise("KeyError", Repr(key.val)), log)
    ELSE from_namespace(
            self.options[CHOOSE k \in 1..Len(self.options) :
                            VStr(self.options[k].name) = key.val].cls,
            branch_prefix(prefix, attr), ns, log)

\* CommandArgument.extract of argument/command.py
Command_extract(self, prefix, attr, ns, log) ==
    SelectedBranch(self, prefix, attr, ns, getattr(ns, prefix \o attr.name), log)

\* argument.extract(prefix, field, namespace), by the descriptor's class
Argument_extract(self, cls, prefix, attr, ns, log) ==
    CASE self.kind = "Command" ->
            Command_extract(self, prefix, attr, ns,
                            Append(log, LogEntry(cls, attr, prefix \o attr.name)))
      [] self.kind \in {"Positional", "Option"} ->
            Positional_extract(self, cls, attr, ns,
                               Positional_key(self, prefix, attr, ns), log)
      [] self.kind = "BoolFlag" ->
            Extracted(BoolOf(getattr(ns, prefix \o attr.name)),
                      Append(log, LogEntry(cls, attr, prefix \o attr.name)))
      [] OTHER ->
            Extracted(Value_extract(self, prefix, attr, ns),
                      Append(log, LogEntry(cls, attr, prefix \o attr.name)))

ExtractField(ga, cls, prefix, ns, log) ==
    IF ~ga.ok THEN Extracted(ga, log)
    ELSE Argument_extract(ga.val.argument, cls, prefix, ga.val.field, ns, log)

\* an extraction loop that goes on after a failure and raises it at the end
KeepFailure(r, rest) == IF ~r.out.ok THEN Extracted(r.out, rest.log) ELSE rest

ExtractRest_collecting(cls, i, prefix, ns, kwargs, name, r) ==
    KeepFailure(r, namespace_to_dict_from(
                       cls, i + 1, prefix, ns,
                       IF r.out.ok THEN setattr(kwargs, name, r.out.val) ELSE kwargs,
                       r.log))

ExtractRest(cls, i, prefix, ns, kwargs, name, r) ==
    IF ~r.out.ok THEN r
    ELSE namespace_to_dict_from(cls, i + 1, prefix, ns,
                                setattr(kwargs, name, r.out.val), r.log)

\* ArgumentContainer.namespace_to_dict: the loop over get_arguments, from field i
namespace_to_dict_from(cls, i, prefix, ns, kwargs, log) ==
    IF i > Len(fields(cls)) THEN Extracted(Ok(kwargs), log)
    ELSE ExtractRest(cls, i, prefix, ns, kwargs, fields(cls)[i].name,
                     ExtractField(get_argument(cls, i), cls, prefix, ns, log))

(***************************************************************************)
(* The inputs of a call: the root container, the argument vector over the  *)
(* tokens that matter to that container, and the environment.              *)
(***************************************************************************)
Alphabet(cls) ==
    CASE cls = "ConsoleArguments" -> {"ws", "x", "build", "clean", "--verbose", "--no-verbose"}
      [] cls = "BuildArguments" ->
            {"a", "b", "--verbose", "--no-verbose", "--colorize", "--no-colorize"}
      [] cls = "CleanArguments" -> {"x", "--force", "--no-force", "--verbose", "--no-verbose"}
      [] cls = "EnvArguments" -> {"--level", "--count", "--opt", "7", "x"}
      [] cls = "NumberArguments" -> {"1", "2", "12", "x"}
      [] cls = "WordArguments" -> {"a", "b", "--loud", "--no-loud", "--extra"}
      [] cls = "ToolArguments" -> {"run", "fast", "slow", "--dry", "--no-dry"}
      [] cls = "UnknownArgs" -> {"x", "7"}
      [] cls = "ExtraArguments" -> {"--mode", "--level", "debug", "h", "x"}
      [] cls = "TagArguments" -> {"--tags", "--uniq", "", "a,b,c", "a,,a"}
      [] cls = "SwitchArguments" ->
            {"--enabled", "--no-enabled", "--no-e", "--quiet", "--no-quiet"}
      [] cls = "HiddenArguments" -> {"--hidden", "--no-hidden"}
      [] cls = "OptionArguments" -> {"-c", "--count", "--sz", "--limit", "7", "x"}
      [] cls = "DepthArguments" -> {"--depth", "7"}
      [] cls = "FlagArguments" -> {"--root", "--root-path", "-q", "--quick", "x"}
      [] cls = "ShortArguments" -> {"-r", "x"}
      [] cls = "LimitArguments" -> {"--limit", "--after", "7", "x"}
      [] cls = "OuterArguments" -> {"limit", "--limit", "--after", "--tail", "7"}
      [] cls = "CollectArguments" -> {"--nums", "--pair", "--uniq", "7", "x"}
      [] cls = "MarkArguments" -> {"--tag", "a"}
      [] cls = "DryArguments" -> {"fast", "slow", "--dry", "--no-dry"}
      [] cls = "FirstArguments" -> {"build", "clean", "a"}
      [] cls = "SecondArguments" -> {"build", "clean", "word", "a"}
      [] cls = "LooseArguments" -> {"x"}
      [] cls = "StrictArguments" -> {"x"}
      [] cls = "PlainArguments" -> {"x"}
      [] cls = "MisorderedArguments" -> {"x"}

\* the tokens of the console container that pre-validation looks at beyond
\* the root: the two branch names and the switch only the build branch has
BranchTokens == {"build", "clean", "--colorize", "--no-colorize"}

\* vectors long enough to hold two branch names and both tokens of a switch
Longer(cls) ==
    IF cls = "ConsoleArguments" THEN [1..(MaxArgv + 1) -> BranchTokens] ELSE {}

Vectors(cls) == UNION {[1..n -> Alphabet(cls)] : n \in 0..MaxArgv} \cup Longer(cls)

\* the values the variable a container reads can have; <<>> is unset
Settings(cls) ==
    CASE cls = "EnvArguments" -> [name |-> "COUNT_VAR", values |-> {<<>>, <<"7">>, <<"abc">>}]
      [] cls = "TagArguments" -> [name |-> "EXTRA_TAGS", values |-> {<<>>, <<"">>, <<"a,b,c">>}]
      [] cls = "SwitchArguments" -> [name |-> "SWITCH_VAR",
             values |-> {<<>>, <<"true">>, <<"1">>, <<"false">>, <<"0">>, <<"">>}]
      [] OTHER -> [name |-> "COUNT_VAR", values |-> {<<>>}]

Environments(cls) ==
    {[v \in EnvVars |-> IF v = Settings(cls).name THEN e ELSE <<>>] :
        e \in Settings(cls).values}

(***************************************************************************)
(* ArgumentContainer.parse_args as a state machine: one step per phase.    *)
(* The caller makes a first call and then a second one with the same       *)
(* vector.                                                                 *)
(***************************************************************************)
VARIABLES
    cls,        \* the container type parse_args is called on
    argv,       \* the argument vector
    env,        \* the process environment
    pc,         \* the position of the call
    parser,     \* the parser of the call
    namespace,  \* the tokenizer's result
    log,        \* the extract calls of the call, in order
    phases,     \* the phases the call has run, in order
    result,     \* the outcome of the call: an instance or an exception
    calls,      \* the number of calls finished
    first,      \* the outcome of the first call
    callbacks,  \* the callbacks a host passed to new_parser
    invoked,    \* the callbacks new_parser invoked, each with the parser it was given
    other,      \* a second call on the same container, running at the same time
    declared    \* the module so far: its dict COMMON, and the descriptors constructed

vars ==
    <<cls, argv, env, pc, parser, namespace, log, phases, result, calls, first,
      callbacks, invoked, other, declared>>

\* what a call of parse_args never touches: the host's use of new_parser, the
\* other call, and the module
aside == <<callbacks, invoked, other, declared>>

\* the class statements of the module of class c, in order
Statements(c) ==
    IF c = "SecondArguments" THEN <<"FirstArguments", "SecondArguments">> ELSE <<c>>

\* the values of the parameter callbacks: None, one callable, or an iterable
NoCallbacks == [k |-> "NoneType", cbs |-> <<>>]
OneCallback(cb) == [k |-> "callable", cbs |-> <<cb>>]
ManyCallbacks(cbs) == [k |-> "iterable", cbs |-> cbs]

\* the locals of a call of parse_args that has not started
Call0(v) ==
    [pc |-> "idle", argv |-> v, parser |-> <<>>, namespace |-> << >>,
     result |-> [pending |-> TRUE]]

Pending == [pending |-> TRUE]

Init ==
    /\ cls \in Containers
    /\ argv \in Vectors(cls)
    /\ env \in Environments(cls)
    /\ pc = "module"
    /\ parser = ArgumentParser
    /\ namespace = << >>
    /\ log = <<>>
    /\ phases = <<>>
    /\ result = Pending
    /\ calls = 0
    /\ first = Pending
    /\ callbacks = NoCallbacks
    /\ invoked = <<>>
    /\ other = Call0(<<>>)
    /\ declared = [COMMON |-> COMMON, descriptors |-> <<>>]

\* the class statement ends with exception r
Rejected(r) ==
    /\ pc' = "raised"
    /\ result' = r
    /\ UNCHANGED <<cls, argv, env, parser, namespace, log, phases, calls, first>>
    /\ UNCHANGED aside

\* the module once the body of class statement s has constructed r
Constructing(s, r) ==
    [COMMON |-> IF s \in PassesCommon
                THEN extra_after(declared.COMMON, CommandCall(s).kwargs)
                ELSE declared.COMMON,
     descriptors |-> Append(declared.descriptors, r.val)]

Evaluated(s, r) ==
    IF r.ok
    THEN /\ declared' = Constructing(s, r)
         /\ pc' = IF Len(declared.descriptors) + 1 = Len(Statements(cls))
                  THEN "body" ELSE "module"
         /\ UNCHANGED <<cls, argv, env, parser, namespace, log, phases,
                        result, calls, first, callbacks, invoked, other>>
    ELSE Rejected(r)

\* the body of class statement s: it constructs the descriptors, of which a
\* Command's constructor can raise; COMMON is passed as the object it is
Body(debug, s) ==
    IF s \in WithCommand
    THEN CommandArgument_init(debug,
                              IF s \in PassesCommon THEN ExtraDict(declared.COMMON)
                              ELSE CommandCall(s).extra,
                              CommandCall(s).kwargs)
    ELSE Ok(VNone)

\* the next class statement of the module is executed, with or without
\* assertions
ClassBody ==
    /\ pc = "module"
    /\ \E debug \in BOOLEAN :
          Evaluated(Statements(cls)[Len(declared.descriptors) + 1],
                    Body(debug, Statements(cls)[Len(declared.descriptors) + 1]))

\* attrs.define(cls): a field without a default must not follow one with a
\* default; the defaults themselves are not looked at
define(c) ==
    IF \E i \in 1..Len(fields(c)) : \E j \in (i + 1)..Len(fields(c)) :
          fields(c)[i].default.kind # "NOTHING" /\ fields(c)[j].default.kind = "NOTHING"
    THEN Raise("ValueError",
               "No mandatory attributes allowed after an attribute with a default value")
    ELSE Ok(c)

\* arguments(cls): define, and a new type that mixes ArgumentContainer in
arguments(c) == define(c)

Decorated(r) ==
    IF r.ok
    THEN pc' = "start" /\ UNCHANGED <<cls, argv, env, parser, namespace, log, phases,
                                       result, calls, first, callbacks, invoked, other,
                                       declared>>
    ELSE Rejected(r)

\* @arguments is applied to the class
Decorate ==
    /\ pc = "body"
    /\ Decorated(arguments(cls))

\* the callables of a host: each adds one option of its own to the parser it
\* is given, as customize of test_new_parser_callback_and_kwargs does
CallbackOption(cb) ==
    CASE cb = "add_extra" -> "extra"
      [] cb = "add_more" -> "more"

\* cb(parser): parser.add_argument('--extra', action='store_true')
Callback(cb, p) ==
    add_argument(p, <<>>, {"--" \o CallbackOption(cb)},
                 SwitchKwargs(CallbackOption(cb), "store_true", NOTHING), "", "")

Parser(out, invocations) == [out |-> out, log |-> invocations]

\* for cb in callbacks: cb(parser), from the k-th on; the log keeps each
\* callback with the parser it was given
RECURSIVE RunCallbacks(_, _, _, _)
Called(cbs, k, r, invocations) ==
    IF ~r.ok THEN Parser(r, invocations)
    ELSE RunCallbacks(cbs, k + 1, r.val, invocations)

RunCallbacks(cbs, k, p, invocations) ==
    IF k > Len(cbs) THEN Parser(Ok(p), invocations)
    ELSE Called(cbs, k, Callback(cbs[k], p),
                Append(invocations, [cb |-> cbs[k], parser |-> p]))

Registered(r, cbs) ==
    IF ~r.ok THEN Parser(r, <<>>) ELSE RunCallbacks(cbs.cbs, 1, r.val, <<>>)

\* a new_parser that hands the parser to the callbacks before the fields are
\* registered
new_parser_callbacks_first(c, e, cbs) ==
    Parser(add_arguments(c, "", RunCallbacks(cbs.cbs, 1, ArgumentParser, <<>>).out.val,
                         <<>>, e),
           RunCallbacks(cbs.cbs, 1, ArgumentParser, <<>>).log)

\* ArgumentContainer.new_parser(callbacks=cbs)
new_parser_with(c, e, cbs) == Registered(add_arguments(c, "", ArgumentParser, <<>>, e), cbs)

\* a new_parser that registers onto the parser the last call left behind
new_parser_on_leftover(c, e) == add_arguments(c, "", parser, <<>>, e)

\* cls.new_parser(), as parse_args calls it
new_parser(c, e) == new_parser_with(c, e, NoCallbacks).out

\* the call ends with outcome r
Finished(r) ==
    /\ pc' = IF r.ok THEN "returned" ELSE "raised"
    /\ result' = r
    /\ calls' = calls + 1

Built(r) ==
    IF r.ok
    THEN parser' = r.val /\ pc' = "built" /\ UNCHANGED <<result, calls>>
    ELSE Finished(r) /\ UNCHANGED parser

\* parser = cls.new_parser()
NewParser ==
    /\ pc = "start"
    /\ phases' = Append(phases, "build")
    /\ Built(new_parser(cls, env))
    /\ UNCHANGED <<cls, argv, env, namespace, log, first>>
    /\ UNCHANGED aside

\* a pre-validation whose failure is ignored
Validated_ignoring_failure(r) == pc' = "validated" /\ UNCHANGED <<result, calls>>

Validated(r) ==
    IF r.ok
    THEN pc' = "validated" /\ UNCHANGED <<result, calls>>
    ELSE Finished(r)

\* cls.pre_validate(list(raw))
PreValidate ==
    /\ pc = "built"
    /\ phases' = Append(phases, "pre_validate")
    /\ Validated(pre_validate(cls, argv))
    /\ UNCHANGED <<cls, argv, env, parser, namespace, log, first>>
    /\ UNCHANGED aside

Tokenized(r) ==
    IF r.ok
    THEN namespace' = r.val /\ pc' = "tokenized" /\ UNCHANGED <<result, calls>>
    ELSE Finished(r) /\ UNCHANGED namespace

\* namespace = parser.parse_args(argv)
Tokenize ==
    /\ pc = "validated"
    /\ phases' = Append(phases, "tokenize")
    /\ Tokenized(parser_parse_args(parser, argv))
    /\ UNCHANGED <<cls, argv, env, parser, log, first>>
    /\ UNCHANGED aside

Returned(r) == Finished(r.out) /\ log' = r.log

\* return cls.from_namespace('', namespace)
Extract ==
    /\ pc = "tokenized"
    /\ phases' = Append(phases, "extract")
    /\ Returned(from_namespace(cls, "", namespace, <<>>))
    /\ UNCHANGED <<cls, argv, env, parser, namespace, first>>
    /\ UNCHANGED aside

\* the containers a host program builds a parser for
Hosts == {"WordArguments"}

\* what the host passes as callbacks
CallbackChoices ==
    {NoCallbacks, OneCallback("add_extra"),
     ManyCallbacks(<<"add_extra", "add_more">>),
     ManyCallbacks(<<"add_more", "add_extra">>)}

HostBuilt(r, cbs) ==
    /\ callbacks' = cbs
    /\ invoked' = r.log
    /\ IF r.out.ok
       THEN parser' = r.out.val /\ pc' = "host_built" /\ UNCHANGED result
       ELSE pc' = "host_raised" /\ result' = r.out /\ UNCHANGED parser
    /\ UNCHANGED <<cls, argv, env, namespace, log, phases, calls, first, other, declared>>

\* a host calls cls.new_parser(callbacks=...) instead of parse_args
HostNewParser ==
    /\ pc = "start"
    /\ calls = 0
    /\ cls \in Hosts
    /\ \E cbs \in CallbackChoices : HostBuilt(new_parser_with(cls, env, cbs), cbs)

HostParsed(r) ==
    /\ IF r.ok
       THEN namespace' = r.val /\ pc' = "host_parsed" /\ UNCHANGED result
       ELSE pc' = "host_exit" /\ result' = r /\ UNCHANGED namespace
    /\ UNCHANGED <<cls, argv, env, parser, log, phases, calls, first>>
    /\ UNCHANGED aside

\* the host tokenizes the vector with the parser it was returned
HostParse ==
    /\ pc = "host_built"
    /\ HostParsed(parser_parse_args(parser, argv))

\* the caller calls parse_args again, with the same vector
CallAgain ==
    /\ pc \in {"returned", "raised"}
    /\ phases # <<>>
    /\ calls = 1
    /\ first' = result
    /\ pc' = "start"
    /\ result' = Pending
    /\ phases' = <<>>
    /\ log' = <<>>
    /\ UNCHANGED <<cls, argv, env, parser, namespace, calls>>
    /\ UNCHANGED aside

Next ==
    \/ ClassBody \/ Decorate
    \/ NewParser \/ PreValidate \/ Tokenize \/ Extract \/ CallAgain
    \/ HostNewParser \/ HostParse

Spec == Init /\ [][Next]_vars

(***************************************************************************)
(* Two calls of parse_args on the same container at the same time.  The    *)
(* first call keeps its locals (parser, raw, namespace) in the variables   *)
(* of the single call above, the second in the record other; the class,    *)
(* its declarations and the environment are what they share.  The steps    *)
(* of the two calls interleave freely.                                     *)
(***************************************************************************)
MaxShared == 2

\* the containers the two calls are made on, and the tokens of their vectors
SharedContainers == {"WordArguments", "SwitchArguments", "TagArguments"}

SharedAlphabet(c) ==
    CASE c = "WordArguments" -> {"a", "--loud", "--no-loud"}
      [] c = "SwitchArguments" -> {"--enabled", "--no-e", "--quiet"}
      [] c = "TagArguments" -> {"--tags", "a,b,c", ""}

SharedVectors(c) == UNION {[1..n -> SharedAlphabet(c)] : n \in 0..MaxShared}

Together ==
    /\ cls \in SharedContainers
    /\ argv \in SharedVectors(cls)
    /\ env \in Environments(cls)
    /\ pc = "start"
    /\ parser = ArgumentParser
    /\ namespace = << >>
    /\ log = <<>>
    /\ phases = <<>>
    /\ result = Pending
    /\ calls = 0
    /\ first = Pending
    /\ callbacks = NoCallbacks
    /\ invoked = <<>>
    /\ other \in {[Call0(v) EXCEPT !.pc = "start"] : v \in SharedVectors(cls)}
    /\ declared = [COMMON |-> COMMON, descriptors |-> <<VNone>>]

\* a call that takes the parser of the first call for its own
BuiltCall_on_first(call, r) == [call EXCEPT !.parser = parser, !.pc = "built"]

\* parser = cls.new_parser(), in the locals of call
BuiltCall(call, r) ==
    IF r.ok THEN [call EXCEPT !.parser = r.val, !.pc = "built"]
    ELSE [call EXCEPT !.result = r, !.pc = "raised"]

\* cls.pre_validate(list(raw))
ValidatedCall(call, r) ==
    IF r.ok THEN [call EXCEPT !.pc = "validated"]
    ELSE [call EXCEPT !.result = r, !.pc = "raised"]

\* namespace = parser.parse_args(argv)
TokenizedCall(call, r) ==
    IF r.ok THEN [call EXCEPT !.namespace = r.val, !.pc = "tokenized"]
    ELSE [call EXCEPT !.result = r, !.pc = "raised"]

\* return cls.from_namespace('', namespace)
ReturnedCall(call, r) ==
    [call EXCEPT !.result = r, !.pc = IF r.ok THEN "returned" ELSE "raised"]

OtherNewParser ==
    /\ other.pc = "start"
    /\ other' = BuiltCall(other, new_parser(cls, env))
    /\ UNCHANGED <<cls, argv, env, pc, parser, namespace, log, phases, result, calls,
                   first, callbacks, invoked, declared>>

OtherPreValidate ==
    /\ other.pc = "built"
    /\ other' = ValidatedCall(other, pre_validate(cls, other.argv))
    /\ UNCHANGED <<cls, argv, env, pc, parser, namespace, log, phases, result, calls,
                   first, callbacks, invoked, declared>>

OtherTokenize ==
    /\ other.pc = "validated"
    /\ other' = TokenizedCall(other, parser_parse_args(other.parser, other.argv))
    /\ UNCHANGED <<cls, argv, env, pc, parser, namespace, log, phases, result, calls,
                   first, callbacks, invoked, declared>>

OtherExtract ==
    /\ other.pc = "tokenized"
    /\ other' = ReturnedCall(other, from_namespace(cls, "", other.namespace, <<>>).out)
    /\ UNCHANGED <<cls, argv, env, pc, parser, namespace, log, phases, result, calls,
                   first, callbacks, invoked, declared>>

Step ==
    \/ NewParser \/ PreValidate \/ Tokenize \/ Extract
    \/ OtherNewParser \/ OtherPreValidate \/ OtherTokenize \/ OtherExtract

Interleaved == Together /\ [][Step]_vars

\* parse_args(v) run alone: the four phases one after the other
AloneTokenized(c, ns) ==
    IF ~ns.ok THEN ns ELSE from_namespace(c, "", ns.val, <<>>).out

AloneValidated(c, v, p, r) ==
    IF ~r.ok THEN r ELSE AloneTokenized(c, parser_parse_args(p, v))

AloneBuilt(c, v, p, e) ==
    IF ~p.ok THEN p ELSE AloneValidated(c, v, p.val, pre_validate(c, v))

Alone(c, v, e) == AloneBuilt(c, v, new_parser(c, e), e)

(***************************************************************************)
(* Properties.                                                             *)
(***************************************************************************)
PhaseOrder == <<"build", "pre_validate", "tokenize", "extract">>

Ended == pc \in {"returned", "raised"}

\* the indices of the fields of container c that carry a descriptor of kind k
FieldsOfKind(c, k) == {i \in 1..Len(fields(c)) : fields(c)[i].default.kind = k}

\* C1: parse_args runs build, pre_validate, tokenize, extract in that order;
\* a phase runs only if every earlier phase succeeded, a call that raised
\* raised the failure of the last phase it ran, and a Conflict error is
\* raised with the tokenizer not run.
C1_PhasesInOrder ==
    /\ Len(phases) <= Len(PhaseOrder)
    /\ phases = SubSeq(PhaseOrder, 1, Len(phases))
    /\ Len(phases) >= 2 => new_parser(cls, env).ok
    /\ Len(phases) >= 3 => pre_validate(cls, argv).ok
    /\ Len(phases) >= 4 => parser_parse_args(parser, argv).ok
    /\ pc = "raised" =>
          /\ Len(phases) = 1 => result = new_parser(cls, env)
          /\ Len(phases) = 2 => result = pre_validate(cls, argv)
          /\ Len(phases) = 3 => result = parser_parse_args(parser, argv)
          /\ result.exc = "InvalidArgumentsError" => phases = <<"build", "pre_validate">>

\* a Conflict error was raised on a vector the tokenizer rejects
C1_ConflictPreemptsUsageError ==
    /\ pc = "raised"
    /\ result.exc = "InvalidArgumentsError"
    /\ "tokenize" \notin {phases[i] : i \in 1..Len(phases)}
    /\ ~parser_parse_args(parser, argv).ok

\* the name of the switch of field f: the explicit name or the dashed field name
SwitchNameOf(f) == IF f.default.name # "" THEN f.default.name ELSE to_console_name(f.name)

\* the switch fields of container c, both directions active, whose two tokens
\* both occur in vector v
Conflicting(c, v) ==
    {i \in FieldsOfKind(c, "Switch") :
        /\ fields(c)[i].default.enable /\ fields(c)[i].default.disable
        /\ \E j \in 1..Len(v) : v[j] = "--" \o SwitchNameOf(fields(c)[i])
        /\ \E j \in 1..Len(v) : v[j] = "--no-" \o SwitchNameOf(fields(c)[i])}

NamesConflict(msg, c, f) ==
    /\ Contains(msg, "--" \o SwitchNameOf(f) \o " ")
    /\ Contains(msg, "--no-" \o SwitchNameOf(f) \o " ")
    /\ Contains(msg, c)

\* C2: when both tokens of a two-way switch of the root container occur in
\* the vector, the call gets past pre-validation in no state, and it ends
\* raising InvalidArgumentsError with a message that names the container and
\* the two tokens of the first such switch in declaration order.
C2_SwitchConflictRaises ==
    (Conflicting(cls, argv) # {} /\ Len(phases) >= 2) =>
        /\ pc = "raised"
        /\ phases = <<"build", "pre_validate">>
        /\ result.exc = "InvalidArgumentsError"
        /\ \E i \in Conflicting(cls, argv) :
              /\ \A j \in Conflicting(cls, argv) : i <= j
              /\ NamesConflict(result.msg, cls, fields(cls)[i])

\* the conflict of a switch with an explicit name, its disable token first
C2_ExplicitNameConflict ==
    /\ cls = "BuildArguments"
    /\ pc = "raised"
    /\ result.exc = "InvalidArgumentsError"
    /\ Contains(result.msg, "--colorize and --no-colorize")
    /\ \E j \in 1..Len(argv) : \E k \in 1..Len(argv) :
          j < k /\ argv[j] = "--no-colorize" /\ argv[k] = "--colorize"

\* the classes of the log entries
Extractors == {log[i].cls : i \in 1..Len(log)}

\* the branch classes of Command descriptor d other than branch k's
Unselected(d, k) == {d.options[j].cls : j \in 1..Len(d.options)} \ {d.options[k].cls}

\* the extraction of branch k of Command field f from namespace ns
BranchExtracted(f, k, ns) ==
    from_namespace(f.default.options[k].cls, f.name \o "-", ns, <<>>).out

\* C3: when extraction runs on a namespace that reports branch b of a Command
\* field of the root container, no field of another branch is extracted, and
\* the outcome is that of extracting the container mapped to b under the
\* prefix field-name plus "-": the call returns an instance whose value for
\* the field is that instance, or it raises what that extraction raised.
C3_SelectedBranchExtracted ==
    (Ended /\ Len(phases) = 4) =>
        \A i \in FieldsOfKind(cls, "Command") :
            \A k \in 1..Len(fields(cls)[i].default.options) :
                namespace[fields(cls)[i].name] = VStr(fields(cls)[i].default.options[k].name) =>
                    /\ Extractors \cap Unselected(fields(cls)[i].default, k) = {}
                    /\ result.ok = BranchExtracted(fields(cls)[i], k, namespace).ok
                    /\ ~result.ok => result = BranchExtracted(fields(cls)[i], k, namespace)
                    /\ result.ok =>
                          /\ result.val.v[fields(cls)[i].name].cls
                                = fields(cls)[i].default.options[k].cls
                          /\ Ok(result.val.v[fields(cls)[i].name])
                                = BranchExtracted(fields(cls)[i], k, namespace)

\* build was selected, and extracting the clean branch would have failed
C3_UnselectedBranchWouldFail ==
    /\ cls = "ConsoleArguments"
    /\ pc = "returned"
    /\ namespace["command"] = VStr("build")
    /\ result.val.v["command"].cls = "BuildArguments"
    /\ ~from_namespace("CleanArguments", "command-", namespace, <<>>).out.ok

\* no token of vector v names a branch of some Command field of container c
NoBranchToken(c, v) ==
    \E i \in FieldsOfKind(c, "Command") :
        \A k \in 1..Len(fields(c)[i].default.options) : \A j \in 1..Len(v) :
            v[j] # fields(c)[i].default.options[k].name

\* C4: when the vector holds no branch token for a Command field of the root
\* container (and no switch conflict), the call ends raising the Selection
\* error: InvalidArgumentsError, "command selection is required".
C4_SelectionErrorRaised ==
    (Ended /\ NoBranchToken(cls, argv) /\ Conflicting(cls, argv) = {}) =>
        /\ pc = "raised"
        /\ result.exc = "InvalidArgumentsError"
        /\ Contains(result.msg, "command selection is required")

\* ["ws"] on the console container ends in the tokenizer's usage error,
\* with extraction not run
C4_UsageErrorInstead ==
    /\ cls = "ConsoleArguments"
    /\ argv = <<"ws">>
    /\ pc = "raised"
    /\ result.exc = "SystemExit"
    /\ phases = <<"build", "pre_validate", "tokenize">>

\* the actions registered on the root parser for field f of container c
RegisteredFor(c, f) ==
    {a \in 1..Len(parser) : parser[a].scope = <<>> /\ parser[a].owner = c
                              /\ parser[a].field = f}

\* field f of container c is registered with default v, required or not
Registers(c, f, v, required) ==
    \E a \in RegisteredFor(c, f.name) : parser[a].default = v /\ parser[a].required = required

\* C5: once the build phase has run, each value Flag of the root container
\* is registered with its explicit default and not required, whatever the
\* environment holds; or else, its variable being set, with the converted
\* value of the variable and not required; or else required with no default.
C5_DefaultPrecedence ==
    Len(phases) >= 1 =>
        \A i \in FieldsOfKind(cls, "Flag") :
            LET f == fields(cls)[i]
                raw == getenv(env, f.default.env_var)
            IN  IF f.default.default # NOTHING
                THEN Registers(cls, f, f.default.default, FALSE)
                ELSE IF f.default.env_var # "" /\ raw # <<>>
                THEN Call(f.default.type, VStr(raw[1])).ok =>
                        Registers(cls, f, Call(f.default.type, VStr(raw[1])).val, FALSE)
                ELSE Registers(cls, f, VNone, TRUE)

\* a flag with an explicit default, a variable holding text that does not
\* convert, and a call that ends in the build phase with ValueError
C5_ExplicitDefaultFailsOnEnvironment ==
    /\ cls = "EnvArguments"
    /\ fields(cls)[1].default.default = VInt(1)
    /\ env["COUNT_VAR"] = <<"abc">>
    /\ argv = <<>>
    /\ pc = "raised"
    /\ phases = <<"build">>
    /\ result.exc = "ValueError"

FieldIndex(c, f) == CHOOSE i \in 1..Len(fields(c)) : fields(c)[i].name = f

FieldNames(c) == [i \in 1..Len(fields(c)) |-> fields(c)[i].name]

\* the fields the extract calls on container c were made for, in call order
RECURSIVE ExtractOrder(_, _)
ExtractOrder(c, i) ==
    IF i > Len(log) THEN <<>>
    ELSE (IF log[i].cls = c THEN <<log[i].field>> ELSE <<>>) \o ExtractOrder(c, i + 1)

\* the actions of the root parser that container c registered
RootActions(c) == {a \in 1..Len(parser) : parser[a].scope = <<>> /\ parser[a].owner = c}

\* the fields of container c whose descriptor registers an action: every one
\* but a switch with neither direction, whose add_argument adds nothing
Registering(c) ==
    {i \in 1..Len(fields(c)) :
        ~ /\ fields(c)[i].default.kind = "Switch"
          /\ ~fields(c)[i].default.enable
          /\ ~fields(c)[i].default.disable}

\* every field of container c has a descriptor or no default
WellDeclared(c) ==
    \A i \in 1..Len(fields(c)) : fields(c)[i].default.kind \in ArgumentTypes \cup {"NOTHING"}

\* C7: get_arguments yields the declared fields one by one in declaration
\* order, each with its own descriptor, a field without one with a positional
\* of exactly one token; the build phase registers the root container's
\* fields, and extraction reads them, in declaration order.
C7_DeclarationOrder ==
    WellDeclared(cls) =>
    /\ \A i \in 1..Len(fields(cls)) :
          /\ get_argument(cls, i).ok
          /\ get_argument(cls, i).val.field = fields(cls)[i]
          /\ IF fields(cls)[i].default.kind = "NOTHING"
             THEN /\ get_argument(cls, i).val.argument.kind = "OldPositional"
                  /\ get_argument(cls, i).val.argument.nargs = ""
             ELSE get_argument(cls, i).val.argument = fields(cls)[i].default
    /\ Len(phases) >= 2 =>
          /\ {parser[a].field : a \in RootActions(cls)}
                = {fields(cls)[i].name : i \in Registering(cls)}
          /\ \A a \in RootActions(cls) : \A b \in RootActions(cls) :
                a < b => FieldIndex(cls, parser[a].field) <= FieldIndex(cls, parser[b].field)
          /\ \A i \in FieldsOfKind(cls, "NOTHING") :
                \A a \in RegisteredFor(cls, fields(cls)[i].name) :
                    parser[a].positional /\ parser[a].nargs = "" /\ parser[a].required
    /\ pc = "returned" => ExtractOrder(cls, 1) = FieldNames(cls)

\* the console container returned: its bare field root was registered first,
\* as a positional of one token, and extracted first
C7_BareFieldFirst ==
    /\ cls = "ConsoleArguments"
    /\ pc = "returned"
    /\ fields(cls)[1].default.kind = "NOTHING"
    /\ parser[1].field = "root" /\ parser[1].positional /\ parser[1].nargs = ""
    /\ log[1].field = "root"
    /\ ExtractOrder(cls, 1) = <<"root", "verbose", "command">>

Front(scope) == SubSeq(scope, 1, Len(scope) - 1)

\* the action of the Command field whose branches the parser of scope is one of
CommandOver(scope) ==
    CHOOSE a \in 1..Len(parser) :
        parser[a].scope = Front(scope) /\ parser[a].action = "parsers"

\* the namespace prefix of a scope: {parent-prefix}{field-name}-
RECURSIVE PrefixOf(_)
PrefixOf(scope) ==
    IF scope = <<>> THEN ""
    ELSE PrefixOf(Front(scope)) \o parser[CommandOver(scope)].field \o "-"

IsPrefix(s, t) == Len(s) <= Len(t) /\ SubSeq(t, 1, Len(s)) = s

\* C8: every field of the tree is registered, and extracted, under the key
\* prefix plus field name, and two distinct fields on one root-to-branch
\* path never share a key.
C8_KeysPrefixedAndDistinct ==
    Len(phases) >= 2 =>
        /\ \A a \in 1..Len(parser) :
              parser[a].dest = PrefixOf(parser[a].scope) \o parser[a].field
        /\ \A a \in 1..Len(parser) : \A b \in 1..Len(parser) :
              (/\ IsPrefix(parser[a].scope, parser[b].scope)
               /\ <<parser[a].owner, parser[a].field>> # <<parser[b].owner, parser[b].field>>)
              => parser[a].dest # parser[b].dest
        /\ pc = "returned" =>
              \A i \in 1..Len(log) : \E a \in 1..Len(parser) :
                  /\ parser[a].owner = log[i].cls /\ parser[a].field = log[i].field
                  /\ log[i].key = PrefixOf(parser[a].scope) \o log[i].field

\* the positional root of the clean branch was registered under the key of
\* the console container's root, and its token replaced the root's value
C8_RootOverwritten ==
    /\ cls = "ConsoleArguments"
    /\ argv = <<"ws", "clean", "x">>
    /\ pc = "returned"
    /\ \E a \in 1..Len(parser) : \E b \in 1..Len(parser) :
          /\ parser[a].scope = <<>> /\ parser[b].scope = <<"clean">>
          /\ parser[a].field = "root" /\ parser[b].field = "root"
          /\ parser[a].dest = parser[b].dest
    /\ result.val.v["root"] = VStr("x")

\* two actions of the parsers of different branches of one Command field
Siblings(a, b) ==
    /\ parser[a].scope # <<>> /\ parser[b].scope # <<>>
    /\ Front(parser[a].scope) = Front(parser[b].scope)
    /\ parser[a].scope # parser[b].scope

\* the parser of scope is the root parser or one the namespace reports selected
ScopeSelected(scope) ==
    \A n \in 1..Len(scope) :
        namespace[parser[CommandOver(SubSeq(scope, 1, n))].dest] = VStr(scope[n])

RECURSIVE Arguments(_)
Arguments(v) ==
    IF v = <<>> THEN <<>>
    ELSE (IF IsOptionLike(Head(v)) THEN <<>> ELSE <<Head(v)>>) \o Arguments(Tail(v))

\* C10: a one-or-more Positional annotated C[T] yields, for the tokens
\* t1..tn, the container of kind C of T(t1)..T(tn): a set of paths for
\* set[Path], a tuple of integers for the string 'tuple[int]', a list of
\* strings for list[str].
C10_CollectionOfConverted ==
    pc = "returned" =>
        LET t == Arguments(argv)
        IN  /\ cls = "BuildArguments" =>
                  result.val.v["projects"]
                    = [t |-> "set", v |-> {[t |-> "Path", v |-> t[i]] : i \in 1..Len(t)}]
            /\ cls = "NumberArguments" =>
                  result.val.v["values"]
                    = [t |-> "tuple",
                       v |-> [i \in 1..Len(t) |-> [t |-> "int", v |-> ParseDecimal(t[i])]]]
            /\ cls = "WordArguments" =>
                  result.val.v["words"]
                    = [t |-> "list", v |-> [i \in 1..Len(t) |-> [t |-> "str", v |-> t[i]]]]

\* ["a", "b"] on set[Path] returned the set of the two paths
C10_SetOfTwoPaths ==
    /\ cls = "BuildArguments"
    /\ argv = <<"a", "b">>
    /\ pc = "returned"
    /\ result.val.v["projects"] = VSet(<<VPath("a"), VPath("b")>>)
    /\ Cardinality(result.val.v["projects"].v) = 2

\* the declared type is a union, or text that evaluates to nothing or to a union
Unresolved(type) ==
    \/ type.k = "union"
    \/ type.k = "string" /\ EvalAnnotation(type.name).k \in {"none", "union"}

\* the fields of container c with such a type, a descriptor of argument/ (or
\* none: the text then starts with no keyword) and no converter of their own
UnresolvedFields(c) ==
    {i \in 1..Len(fields(c)) :
        /\ Unresolved(fields(c)[i].type)
        /\ \/ fields(c)[i].default.kind \in {"Positional", "Option"}
              /\ fields(c)[i].default.convert = ""
           \/ fields(c)[i].default.kind = "NOTHING"
              /\ guess_converter(fields(c)[i].type.name).k = "none"}

\* the tokens of vector v and None, as raw values
RawValues(v) == {VStr(v[j]) : j \in 1..Len(v)} \cup {VNone}

\* C11: a field whose declared type is text that cannot be resolved, or a
\* union, has no converter: resolution yields nothing instead of raising, the
\* field is registered without a type, the call raises nothing but the
\* tokenizer's usage error, and a returned instance holds for the field the
\* raw token as a string, unchanged.
C11_UnresolvedPassesRaw ==
    \A i \in UnresolvedFields(cls) :
        /\ get_argument(cls, i).ok
        /\ fields(cls)[i].default.kind # "NOTHING" =>
              element_converter(fields(cls)[i].default, fields(cls)[i]) = ""
        /\ fields(cls)[i].default.kind = "NOTHING" =>
              get_converter(OldPositional, fields(cls)[i]) = ""
        /\ Len(phases) >= 1 => new_parser(cls, env).ok
        /\ Len(phases) >= 2 =>
              /\ RegisteredFor(cls, fields(cls)[i].name) # {}
              /\ \A a \in RegisteredFor(cls, fields(cls)[i].name) : parser[a].type = ""
        /\ pc = "raised" => result.exc = "SystemExit"
        /\ pc = "returned" =>
              /\ result.val.v[fields(cls)[i].name] \in RawValues(argv)
              /\ cls = "UnknownArgs" => result.val.v[fields(cls)[i].name] = VStr(argv[i])

\* the tokens "x", "7", "7" came back as the strings they are: the union of
\* int and str did not turn "7" into a number
C11_UnknownAndUnionRaw ==
    /\ cls = "UnknownArgs"
    /\ argv = <<"x", "7", "7">>
    /\ pc = "returned"
    /\ fields(cls)[2].type = Text("Unknown")
    /\ fields(cls)[3].type = UnionOf("int", "str")
    /\ result.val.v["stuff"] = VStr("7")
    /\ result.val.v["either"] = VStr("7")

\* the positions of vector v where option string opt is followed by a token
OptionAt(v, opt) == {j \in 1..(Len(v) - 1) : v[j] = opt}

\* the long option of field f
LongOption(f) == "--" \o to_console_name(f.name)

\* the members of Enum type e that token tok names or equals in value
MembersFor(e, tok) ==
    {k \in 1..Len(Members(e)) :
        Members(e)[k].name = tok \/ Members(e)[k].value = VStr(tok)}

\* a call that returned holds, for each Enum field whose option was given a
\* token naming a member or equal to a member's value, that member
EnumTokenMapped ==
    \A i \in FieldsOfKind(cls, "Enum") :
        \A j \in OptionAt(argv, LongOption(fields(cls)[i])) :
            /\ pc = "returned"
            /\ \A l \in OptionAt(argv, LongOption(fields(cls)[i])) : l <= j
            => /\ MembersFor(fields(cls)[i].default.enum, argv[j + 1]) # {}
               /\ \E k \in MembersFor(fields(cls)[i].default.enum, argv[j + 1]) :
                     result.val.v[fields(cls)[i].name]
                         = VEnum(fields(cls)[i].default.enum,
                                 Members(fields(cls)[i].default.enum)[k].name)

\* a call whose Enum option was given a token matching no member has raised
\* the conversion error that lists every member name
EnumErrorReachesCaller ==
    \A i \in FieldsOfKind(cls, "Enum") :
        \A j \in OptionAt(argv, LongOption(fields(cls)[i])) :
            Ended /\ MembersFor(fields(cls)[i].default.enum, argv[j + 1]) = {}
            => /\ pc = "raised"
               /\ result.exc = "ValueError"
               /\ \A k \in 1..Len(Members(fields(cls)[i].default.enum)) :
                     Contains(result.msg, Members(fields(cls)[i].default.enum)[k].name)

\* C12: the Enum converter maps a token that names a member, or equals a
\* member's underlying value, to that member; for a token that matches
\* neither, the caller of parse_args receives a conversion error listing
\* every member name.
C12_EnumConversion == EnumTokenMapped /\ EnumErrorReachesCaller

\* "--mode x": the converter's error names debug and release, but the call
\* ended in the tokenizer's usage error, which carries neither
C12_UsageErrorForUnknownToken ==
    /\ cls = "ExtraArguments"
    /\ argv = <<"--mode", "x">>
    /\ ~Enum_convert("Mode", Members("Mode"), VStr("x")).ok
    /\ Enum_convert("Mode", Members("Mode"), VStr("x")).msg
          = "Expected one of debug, release, got x"
    /\ pc = "raised"
    /\ result.exc = "SystemExit"
    /\ ~Contains(result.msg, "debug")
    /\ phases = <<"build", "pre_validate", "tokenize">>

\* the number of occurrences of the one-character delimiter d in s
Count(s, d) == Cardinality({i \in 1..Len(s) : SubSeq(s, i, i) = d})

\* the set of positions of vector v where the option of List field f is given
\* a token, and the text the field's value is converted from: the token after
\* the last occurrence, or else the field's environment variable
ListSource(f, v, e) ==
    IF OptionAt(v, LongOption(f)) # {}
    THEN <<v[1 + CHOOSE j \in OptionAt(v, LongOption(f)) :
                  \A l \in OptionAt(v, LongOption(f)) : l <= j]>>
    ELSE IF f.default.env_var # "" THEN e[f.default.env_var]
    ELSE <<>>

\* value is what the text raw gives when split at d: nothing for the empty
\* text, and else one item more than raw holds delimiters, in order
SplitOf(value, raw, d, container) ==
    IF raw = "" THEN value.v = (IF container = "list" THEN <<>> ELSE {})
    ELSE IF container = "list"
    THEN /\ Len(value.v) = Count(raw, d) + 1
         /\ \A k \in 1..Len(value.v) : value.v[k].t = "str" /\ ~Contains(value.v[k].v, d)
         /\ Join([k \in 1..Len(value.v) |-> value.v[k].v], d) = raw
    ELSE /\ Cardinality(value.v) <= Count(raw, d) + 1
         /\ \A x \in value.v :
               x.t = "str" /\ ~Contains(x.v, d) /\ Contains(d \o raw \o d, d \o x.v \o d)
         /\ \A i \in 0..Len(raw) : \A j \in i..Len(raw) :
               /\ ~Contains(SubSeq(raw, i + 1, j), d)
               /\ i = 0 \/ SubSeq(raw, i, i) = d
               /\ j = Len(raw) \/ SubSeq(raw, j + 1, j + 1) = d
               => VStr(SubSeq(raw, i + 1, j)) \in value.v

\* C13: a List field's value is the text given for it, on the command line
\* or else by its environment variable, split at every occurrence of the
\* delimiter, the items converted and materialized as the container: the
\* empty text gives the empty container, a text with k delimiters k + 1 items
\* in their order; with no text given the field holds its default.
C13_ListSplit ==
    pc = "returned" =>
        \A i \in FieldsOfKind(cls, "List") :
            /\ result.val.v[fields(cls)[i].name].t = fields(cls)[i].default.container
            /\ IF ListSource(fields(cls)[i], argv, env) = <<>>
               THEN result.val.v[fields(cls)[i].name] = fields(cls)[i].default.default
               ELSE SplitOf(result.val.v[fields(cls)[i].name],
                            ListSource(fields(cls)[i], argv, env)[1],
                            fields(cls)[i].default.delimiter,
                            fields(cls)[i].default.container)

\* "--tags a,,a" returned three items, the empty one in the middle, although
\* the environment offered a,b,c
C13_TwoDelimitersThreeItems ==
    /\ cls = "TagArguments"
    /\ argv = <<"--tags", "a,,a">>
    /\ env["EXTRA_TAGS"] = <<"a,b,c">>
    /\ pc = "returned"
    /\ result.val.v["tags"] = VList(<<VStr("a"), VStr(""), VStr("a")>>)

\* the option strings of the root parser that token tok selects: itself, or
\* else the long options it abbreviates
Abbreviated(tok) ==
    IF \E a \in RootActions(cls) : tok \in parser[a].option_strings THEN {tok}
    ELSE {o \in UNION {parser[a].option_strings : a \in RootActions(cls)} :
            StartsWith(tok, "--") /\ StartsWith(o, tok)}

\* the positions of the tokens of argv that select option string on or off
SwitchTokens(on, off) == {j \in 1..Len(argv) : Abbreviated(argv[j]) \cap {on, off} # {}}

\* the default a switch resolves: whether its environment variable, if set,
\* holds any text, and else its static default
ResolvedDefault(d) ==
    IF d.env_var # "" /\ env[d.env_var] # <<>> THEN VBool(env[d.env_var][1] # "")
    ELSE d.default

\* the build phase registered, for switch field f, option string opt with the
\* given action and the key prefix + field name exactly when active holds
SwitchOption(f, opt, action, active) ==
    active <=> \E a \in RegisteredFor(cls, f.name) :
                  /\ parser[a].option_strings = {opt}
                  /\ parser[a].action = action
                  /\ parser[a].dest = f.name

\* the tokenizer left under the key of switch field f true if the last switch
\* token is the enabling one, false if it is the disabling one, and the
\* resolved default if there is none
SwitchSettled(f, on, off) ==
    /\ hasattr(namespace, f.name)
    /\ namespace[f.name] =
          IF SwitchTokens(on, off) = {} THEN ResolvedDefault(f.default)
          ELSE VBool(on \in Abbreviated(argv[CHOOSE j \in SwitchTokens(on, off) :
                                                 \A l \in SwitchTokens(on, off) : l <= j]))

\* the containers whose vector is tokenized by the root parser alone
Flat == {c \in Containers : FieldsOfKind(c, "Command") = {}}

\* the switch fields of the root container that have a direction
Directed == {i \in FieldsOfKind(cls, "Switch") :
                fields(cls)[i].default.enable \/ fields(cls)[i].default.disable}

\* what C14 says of switch field i of the root container
SwitchAsStated(i) ==
    /\ Len(phases) >= 2 =>
          /\ SwitchOption(fields(cls)[i], "--" \o SwitchNameOf(fields(cls)[i]),
                          "store_true", fields(cls)[i].default.enable)
          /\ SwitchOption(fields(cls)[i], "--no-" \o SwitchNameOf(fields(cls)[i]),
                          "store_false", fields(cls)[i].default.disable)
    /\ cls \in Flat /\ (pc = "tokenized" \/ Len(phases) = 4) =>
          SwitchSettled(fields(cls)[i], "--" \o SwitchNameOf(fields(cls)[i]),
                        "--no-" \o SwitchNameOf(fields(cls)[i]))

\* C14: a Switch registers --{name} exactly when enable is active and
\* --no-{name} exactly when disable is active, both under the one key
\* prefix + field name; after tokenization the key holds true if the last
\* switch token present is the enabling one, false if it is the disabling
\* one, and the resolved default if neither is present.
C14_SwitchValue == \A i \in FieldsOfKind(cls, "Switch") : SwitchAsStated(i)

\* the same, of the switches that have at least one direction
DirectedSwitchValue == \A i \in Directed : SwitchAsStated(i)

\* a switch with neither direction: tokenization succeeded and left nothing
\* under the field's key, and extraction failed on the missing attribute
C14_NoDirectionNoValue ==
    /\ cls = "HiddenArguments"
    /\ argv = <<>>
    /\ ~fields(cls)[1].default.enable /\ ~fields(cls)[1].default.disable
    /\ phases = <<"build", "pre_validate", "tokenize", "extract">>
    /\ ~hasattr(namespace, "hidden")
    /\ pc = "raised"
    /\ result.exc = "AttributeError"

\* C15: an Option is registered as required according to its explicit
\* required override if one was given, and otherwise exactly when no default
\* was supplied; a call that returned was given every required option.
C15_OptionRequired ==
    Len(phases) >= 2 =>
        \A i \in FieldsOfKind(cls, "Option") :
            /\ RegisteredFor(cls, fields(cls)[i].name) # {}
            /\ \A a \in RegisteredFor(cls, fields(cls)[i].name) :
                  /\ parser[a].required =
                        IF fields(cls)[i].default.required # ""
                        THEN fields(cls)[i].default.required = "True"
                        ELSE fields(cls)[i].default.default = NOTHING
                  /\ pc = "returned" /\ parser[a].required =>
                        \E j \in 1..Len(argv) : argv[j] \in parser[a].option_strings

\* depth has the default 2 and the override required=True: registered as
\* required, and the empty vector was rejected for it
C15_RequiredDespiteDefault ==
    /\ cls = "DepthArguments"
    /\ argv = <<>>
    /\ fields(cls)[1].default.default = VInt(2)
    /\ fields(cls)[1].default.required = "True"
    /\ pc = "raised"
    /\ result.exc = "SystemExit"
    /\ phases = <<"build", "pre_validate", "tokenize">>
    /\ parser[1].required
    /\ parser[1].default = VInt(2)

\* the names supplied for named field f: its explicit names and extra aliases
Supplied(f) ==
    {f.default.opts[k] : k \in 1..Len(f.default.opts)} \cup f.default.extra_opts

\* the option strings C16 expects for named field f
NamesAsStated(f) ==
    Supplied(f) \cup (IF \E n \in Supplied(f) : StartsWith(n, "--") THEN {}
                      ELSE {LongOption(f)})

\* C16: a named argument (value Flag, Option, boolean Flag) is registered
\* under every explicitly supplied name and every extra alias, and under
\* --{dashed field name} in addition exactly when none of the supplied names
\* starts with "--".
C16_NamesRegistered ==
    Len(phases) >= 2 =>
        \A i \in FieldsOfKind(cls, "Flag") \cup FieldsOfKind(cls, "Option")
                    \cup FieldsOfKind(cls, "BoolFlag") :
            \E a \in RegisteredFor(cls, fields(cls)[i].name) :
                parser[a].option_strings = NamesAsStated(fields(cls)[i])

\* the same, of the descriptors of argument/ alone
NewNamesRegistered ==
    Len(phases) >= 2 =>
        \A i \in FieldsOfKind(cls, "Option") \cup FieldsOfKind(cls, "BoolFlag") :
            \E a \in RegisteredFor(cls, fields(cls)[i].name) :
                parser[a].option_strings = NamesAsStated(fields(cls)[i])

\* root was declared with the extra alias --root-path: the alias is not among
\* the registered option strings and the tokenizer rejected it
C16_AliasRejected ==
    /\ cls = "FlagArguments"
    /\ argv = <<"--root-path", "x">>
    /\ "--root-path" \in fields(cls)[1].default.extra_opts
    /\ pc = "raised"
    /\ result.exc = "SystemExit"
    /\ phases = <<"build", "pre_validate", "tokenize">>
    /\ \A a \in 1..Len(parser) : "--root-path" \notin parser[a].option_strings
    /\ parser[1].option_strings = {"--root"}

\* the values the constructor call in the class body of c maps branch names to
BranchValues(c) ==
    {CommandCall(c).kwargs[k].cls : k \in 1..Len(CommandCall(c).kwargs)}
        \cup (IF CommandCall(c).extra.k = "dict"
              THEN {CommandCall(c).extra.items[k].cls :
                        k \in 1..Len(CommandCall(c).extra.items)}
              ELSE {})

\* the class statement was executed and raised
RaisedInDeclaration == pc = "raised" /\ phases = <<>>

\* C17: constructing a Command descriptor raises a declaration error whenever
\* a branch value, of a keyword branch or of an entry of extra, is not a bound
\* container type: the class body of such a class raises, and no class holds
\* a Command descriptor with such a branch.
C17_BranchesValidated ==
    /\ cls \in WithCommand /\ pc # "module" /\ BranchValues(cls) \ BoundContainers # {}
          => RaisedInDeclaration /\ result.exc \in {"AssertionError", "TypeError"}
    /\ pc \notin {"module", "raised"} =>
          \A i \in FieldsOfKind(cls, "Command") :
              \A k \in 1..Len(fields(cls)[i].default.options) :
                  fields(cls)[i].default.options[k].cls \in BoundContainers

\* command(extra={'x': int}, build=BuildArguments): the constructor returned
\* with assertions on, the class holds the descriptor with the branch x of
\* int, and only the build phase of a call failed on it
C17_ExtraEntryUnchecked ==
    /\ cls = "LooseArguments"
    /\ CommandArgument_init(TRUE, CommandCall(cls).extra, CommandCall(cls).kwargs).ok
    /\ fields(cls)[1].default.options = <<Branch("x", "int"), Branch("build", "BuildArguments")>>
    /\ pc = "raised"
    /\ phases = <<"build">>
    /\ result.exc = "AttributeError"

\* C18: a container with a field whose default is no descriptor is rejected
\* with a declaration error when @arguments is applied to the class, before
\* new_parser or parse_args is called on it.
C18_RejectedAtDefinition ==
    ~WellDeclared(cls) /\ pc \notin {"module", "body"} => RaisedInDeclaration

\* the class with level = 3 was decorated without complaint; the TypeError
\* came out of the build phase of the first call
C18_RejectedOnlyWhenCalled ==
    /\ cls = "PlainArguments"
    /\ fields(cls)[2].default = plain(VInt(3))
    /\ arguments(cls).ok
    /\ pc = "raised"
    /\ phases = <<"build">>
    /\ result.exc = "TypeError"
    /\ result.msg = "Use a argument type as a default value, not 3"

\* the host's call of new_parser has returned
HostReturned == pc \in {"host_built", "host_parsed", "host_exit"}

\* vector v without the tokens the callbacks' options take
WithoutCallbackTokens(v) == SelectSeq(v, LAMBDA tok : tok \notin {"--extra", "--more"})

\* C20: new_parser registers all the container's fields on a fresh parser
\* and only then invokes each callback, a single callable or every element of
\* an iterable in the given order, exactly once with that parser, and returns
\* it: the returned parser holds the fields' actions followed by what the
\* callbacks added, and accepts a callback's option alongside the container's
\* own arguments.
C20_CallbacksAfterRegistration ==
    HostReturned =>
        /\ [k \in 1..Len(invoked) |-> invoked[k].cb] = callbacks.cbs
        /\ \A k \in 1..Len(invoked) :
              /\ Len(invoked[k].parser) = Len(new_parser(cls, env).val) + k - 1
              /\ SubSeq(invoked[k].parser, 1, Len(new_parser(cls, env).val))
                    = new_parser(cls, env).val
              /\ invoked[k].parser = SubSeq(parser, 1, Len(invoked[k].parser))
        /\ Len(parser) = Len(new_parser(cls, env).val) + Len(callbacks.cbs)
        /\ \A k \in 1..Len(callbacks.cbs) :
              parser[Len(new_parser(cls, env).val) + k].option_strings
                  = {"--" \o CallbackOption(callbacks.cbs[k])}
        /\ pc = "host_parsed" =>
              /\ \A k \in 1..Len(callbacks.cbs) :
                    namespace[CallbackOption(callbacks.cbs[k])]
                        = VBool(InArgv(argv, "--" \o CallbackOption(callbacks.cbs[k])))
              /\ parser_parse_args(new_parser(cls, env).val, WithoutCallbackTokens(argv)).ok
              /\ \A key \in DOMAIN parser_parse_args(new_parser(cls, env).val,
                                                    WithoutCallbackTokens(argv)).val :
                    namespace[key] = parser_parse_args(new_parser(cls, env).val,
                                                       WithoutCallbackTokens(argv)).val[key]
        /\ InArgv(argv, "--extra") /\ (\A k \in 1..Len(callbacks.cbs) : callbacks.cbs[k] # "add_extra")
              => pc # "host_parsed"

\* two callbacks were passed as an iterable: add_more saw the parser with the
\* fields only, add_extra the one add_more had added to, and the returned
\* parser took "a --extra" with both the words and the callback's option
C20_ExtraAcceptedWithWords ==
    /\ cls = "WordArguments"
    /\ argv = <<"a", "--extra">>
    /\ callbacks = ManyCallbacks(<<"add_more", "add_extra">>)
    /\ pc = "host_parsed"
    /\ Len(invoked) = 2
    /\ invoked[1].parser = new_parser(cls, env).val
    /\ invoked[2].parser = Append(invoked[1].parser, parser[Len(parser) - 1])
    /\ namespace["extra"] = VBool(TRUE)
    /\ namespace["more"] = VBool(FALSE)
    /\ namespace["words"] = VList(<<VStr("a")>>)

\* the locals of a call are what the call alone would have made them
OwnLocals(position, p, ns, v) ==
    /\ position \in {"built", "validated", "tokenized", "returned"} =>
          p = new_parser(cls, env).val
    /\ position \in {"tokenized", "returned"} => ns = parser_parse_args(p, v).val

PrefixOfEntry(e) == SubSeq(e.key, 1, Len(e.key) - Len(e.field))

\* the outcome of the extract call of log entry j, made on its own
ExtractAlone(j) ==
    Argument_extract(get_argument(log[j].cls, FieldIndex(log[j].cls, log[j].field)).val.argument,
                     log[j].cls, PrefixOfEntry(log[j]),
                     fields(log[j].cls)[FieldIndex(log[j].cls, log[j].field)],
                     namespace, <<>>).out

IsCommandEntry(j) ==
    fields(log[j].cls)[FieldIndex(log[j].cls, log[j].field)].default.kind = "Command"

\* C21: extraction is fail-fast.  When the extraction phase raises, the error
\* is the one of the last extract call made, every extract call before it
\* either succeeded or is the Command field the failure lies under, no field
\* declared after the failing one in its container and no field declared
\* after such a Command field in an enclosing container is extracted, and
\* the call returns no instance.
C21_FailFast ==
    (pc = "raised" /\ phases = PhaseOrder) =>
        /\ log # <<>>
        /\ ~result.ok
        /\ result = ExtractAlone(Len(log))
        /\ \A j \in 1..(Len(log) - 1) :
              /\ IsCommandEntry(j) \/ ExtractAlone(j).ok
              /\ IsCommandEntry(j) /\ ~ExtractAlone(j).ok =>
                    \A k \in (j + 1)..Len(log) : log[k].cls # log[j].cls
        /\ \A j \in 1..Len(log) :
              log[j].cls = log[Len(log)].cls =>
                  FieldIndex(log[j].cls, log[j].field)
                      <= FieldIndex(log[j].cls, log[Len(log)].field)

\* the option limit of the branch was left out and its extraction raised: the
\* flag after it in the branch and the switch after the Command field in the
\* root were both given and tokenized, and neither was extracted
C21_LaterFieldsNotExtracted ==
    /\ cls = "OuterArguments"
    /\ argv = <<"--tail", "limit", "--after">>
    /\ pc = "raised"
    /\ phases = PhaseOrder
    /\ result.exc = "ValueError"
    /\ namespace["tail"] = VBool(TRUE)
    /\ namespace["command-after"] = VBool(TRUE)
    /\ [j \in 1..Len(log) |-> log[j].field] = <<"command", "limit">>
    /\ Len(fields("LimitArguments")) > FieldIndex("LimitArguments", "limit")
    /\ Len(fields("OuterArguments")) > FieldIndex("OuterArguments", "command")

\* the branches of Command descriptor d whose name is a token of vector v
NamedBranches(d, v) == {k \in 1..Len(d.options) : \E j \in 1..Len(v) : v[j] = d.options[k].name}

\* the first of them in the order of the descriptor's mapping
FirstNamed(d, v) == CHOOSE k \in NamedBranches(d, v) : \A j \in NamedBranches(d, v) : k <= j

\* the tokens of v after the first occurrence of tok
After(v, tok) ==
    SubSeq(v, (CHOOSE j \in 1..Len(v) : v[j] = tok /\ \A h \in 1..(j - 1) : v[h] # tok) + 1,
           Len(v))

\* pre-validation ran and raised nothing
PreValidationPassed == Len(phases) > 2 \/ (Len(phases) = 2 /\ pc # "raised")

\* pre-validation raised the conflict of the first conflicting switch of
\* container c on vector v
ConflictOf(c, v) ==
    /\ pc = "raised"
    /\ phases = <<"build", "pre_validate">>
    /\ result.exc = "InvalidArgumentsError"
    /\ \E i \in Conflicting(c, v) :
          /\ \A j \in Conflicting(c, v) : i <= j
          /\ NamesConflict(result.msg, c, fields(c)[i])

\* what pre-validation does for Command descriptor d of the root container
BranchValidated(d) ==
    IF NamedBranches(d, argv) = {} THEN PreValidationPassed
    ELSE LET b == d.options[FirstNamed(d, argv)]
             rest == After(argv, b.name)
         IN  /\ Conflicting(b.cls, rest) # {} => ConflictOf(b.cls, rest)
             /\ Conflicting(b.cls, rest) = {} =>
                   IF FieldsOfKind(b.cls, "Command") = {}
                   THEN PreValidationPassed
                   ELSE IF pre_validate(b.cls, rest).ok
                   THEN PreValidationPassed
                   ELSE pc = "raised" /\ result = pre_validate(b.cls, rest)

\* C22: for a Command field, pre_validate follows the first branch, in the
\* mapping's order, whose name is a token of the vector, and validates that
\* branch's container against the tokens after the first occurrence of the
\* name only: when both tokens of a two-way switch of that container follow
\* the name, the call ends with the Conflict error naming that container,
\* and when no branch name occurs nothing is raised for the field.  (The
\* root's own switches are assumed free of conflict, which is raised first.)
C22_FirstNamedBranchValidated ==
    (Len(phases) >= 2 /\ Conflicting(cls, argv) = {}) =>
        \A i \in FieldsOfKind(cls, "Command") : BranchValidated(fields(cls)[i].default)

\* both branch names occur, clean before build: build, the first of the
\* mapping, was followed, and the conflict of its switch colorize was raised
\* in the name of BuildArguments; the clean container has no such switch
C22_MappingOrderNotVectorOrder ==
    /\ cls = "ConsoleArguments"
    /\ argv = <<"clean", "build", "--colorize", "--no-colorize">>
    /\ pc = "raised"
    /\ phases = <<"build", "pre_validate">>
    /\ result.exc = "InvalidArgumentsError"
    /\ Contains(result.msg, "BuildArguments: options --colorize and --no-colorize")
    /\ Conflicting("CleanArguments", After(argv, "clean")) = {}

\* the fields of container c of the argument/value.py family whose declared
\* type is a list, set or tuple collection
CollectionFields(c) ==
    {i \in FieldsOfKind(c, "Positional") \cup FieldsOfKind(c, "Option") :
        collection_factory(resolve_type(fields(c)[i])) # ""}

\* converter conv applied to x, conv being "" for no converter
ConvertedBy(conv, x) == IF conv = "" THEN x ELSE Call(conv, x).val

\* value is the container of kind kind that raw coerces to under conv
CoercedFrom(value, kind, raw, conv) ==
    /\ value.t = kind
    /\ CASE raw.t = "NoneType" -> value.v = <<>> \/ value.v = {}
         [] raw.t \in {"list", "tuple"} ->
               IF kind = "set"
               THEN value.v = {ConvertedBy(conv, raw.v[k]) : k \in 1..Len(raw.v)}
               ELSE value.v = [k \in 1..Len(raw.v) |-> ConvertedBy(conv, raw.v[k])]
         [] raw.t = "set" ->
               IF kind = "set"
               THEN value.v = {ConvertedBy(conv, x) : x \in raw.v}
               ELSE /\ Len(value.v) = Cardinality(raw.v)
                    /\ {value.v[k] : k \in 1..Len(value.v)}
                          = {ConvertedBy(conv, x) : x \in raw.v}
         [] OTHER ->
               IF kind = "set"
               THEN value.v = {ConvertedBy(conv, raw)}
               ELSE value.v = <<ConvertedBy(conv, raw)>>

\* C23: _coerce_collection, for a field declared as a list, set or tuple
\* collection, gives the empty container of the declared kind for None, the
\* one-element container of the converted scalar for a scalar, and for a
\* list, tuple or set the container of the declared kind of the converted
\* elements, list and tuple in the order given.  It is applied to the
\* declared default at registration and to the tokenizer's value at
\* extraction, which never fails on a value the tokenizer stored.
C23_CollectionCoercion ==
    \A i \in CollectionFields(cls) :
        LET f == fields(cls)[i]
            kind == collection_factory(resolve_type(f))
            conv == element_converter(f.default, f)
        IN  /\ (Len(phases) >= 2 /\ f.default.default # NOTHING) =>
                  \A a \in RegisteredFor(cls, f.name) :
                      CoercedFrom(parser[a].default, kind, f.default.default, conv)
            /\ (Ended /\ Len(phases) = 4) =>
                  /\ pc = "returned"
                  /\ CoercedFrom(result.val.v[f.name], kind, namespace[f.name], conv)

\* nums was left out and is the empty tuple, the one token of pair became a
\* one-element list, and uniq kept its default, a set in the declaration and
\* a tuple, the declared kind, in the instance
C23_NullScalarAndSet ==
    /\ cls = "CollectArguments"
    /\ argv = <<"--pair", "7">>
    /\ pc = "returned"
    /\ namespace["nums"] = VNone
    /\ result.val.v["nums"] = VTuple(<<>>)
    /\ namespace["pair"] = VInt(7)
    /\ result.val.v["pair"] = VList(<<VInt(7)>>)
    /\ fields(cls)[3].default.default.t = "set"
    /\ result.val.v["uniq"] = VTuple(<<VStr("a")>>)
    /\ \E a \in RegisteredFor(cls, "pair") : parser[a].default = VList(<<VInt(1), VInt(2)>>)

\* the descriptor of the field named f of container c
DescriptorOf(c, f) == fields(c)[FieldIndex(c, f)].default

\* the registered actions whose descriptor builds its key from the prefix it
\* is handed: every kind but the Positional of argument/positional.py
Prefixed == {a \in 1..Len(parser) : DescriptorOf(parser[a].owner, parser[a].field).kind # "Positional"}

\* the prefix action a was registered with: its key without the field name
RegisteredPrefix(a) == SubSeq(parser[a].dest, 1, Len(parser[a].dest) - Len(parser[a].field))

\* C24: the prefix handed to a nested container is the parent's prefix
\* followed by the Command field's name and "-", in registration and in
\* extraction alike: the root is registered and extracted under the empty
\* prefix, and each depth under a prefix that extends the one above by the
\* name of the Command field and "-", hence strictly longer.
C24_PrefixAppendOnly ==
    Len(phases) >= 2 =>
        /\ \A a \in Prefixed :
              IF parser[a].scope = <<>>
              THEN RegisteredPrefix(a) = ""
              ELSE /\ CommandOver(parser[a].scope) \in Prefixed
                   /\ RegisteredPrefix(a)
                         = RegisteredPrefix(CommandOver(parser[a].scope))
                              \o parser[CommandOver(parser[a].scope)].field \o "-"
                   /\ Len(RegisteredPrefix(a))
                         > Len(RegisteredPrefix(CommandOver(parser[a].scope)))
                   /\ IsPrefix(RegisteredPrefix(CommandOver(parser[a].scope)),
                               RegisteredPrefix(a))
        /\ \A j \in 1..Len(log) :
              /\ log[j].cls = cls => PrefixOfEntry(log[j]) = ""
              /\ \A a \in Prefixed :
                    (parser[a].owner = log[j].cls /\ parser[a].field = log[j].field)
                        => PrefixOfEntry(log[j]) = RegisteredPrefix(a)

\* two Command fields deep: the switch dry of the branch fast was registered
\* and extracted under tool-mode-, its Command field mode under tool-, and
\* the root field tool under the empty prefix
C24_TwoLevelsDeep ==
    /\ cls = "ToolArguments"
    /\ argv = <<"run", "fast", "--dry">>
    /\ pc = "returned"
    /\ [j \in 1..Len(log) |-> log[j].key] = <<"tool", "tool-mode", "tool-mode-dry">>
    /\ \E a \in Prefixed :
          /\ parser[a].scope = <<"run", "fast">>
          /\ parser[a].dest = "tool-mode-dry"
          /\ RegisteredPrefix(a) = "tool-mode-"
    /\ result.val.v["tool"].v["mode"].v["dry"] = VBool(TRUE)

(***************************************************************************)
(* C25: the constructor of a Command descriptor and the mapping its caller *)
(* passes as extra.                                                        *)
(***************************************************************************)
\* the names of a branch mapping
BranchNames(mapping) == {mapping[k].name : k \in 1..Len(mapping)}

\* the descriptors the module has constructed from COMMON, by statement
FromCommon == {j \in 1..Len(declared.descriptors) : Statements(cls)[j] \in PassesCommon}

\* C25: constructing a Command descriptor leaves the mapping the caller passed
\* as extra as the caller wrote it; the branch set of each descriptor is that
\* mapping as written together with the descriptor's own keyword branches; and
\* no descriptor built from the shared mapping holds the keyword branch of
\* another
C25_ExtraLeftUnchanged ==
    /\ declared.COMMON = COMMON
    /\ \A j \in FromCommon :
          /\ declared.descriptors[j].options
                = Update(COMMON, CommandCall(Statements(cls)[j]).kwargs)
          /\ \A i \in FromCommon \ {j} :
                BranchNames(CommandCall(Statements(cls)[i]).kwargs)
                    \cap BranchNames(declared.descriptors[j].options) = {}

\* the second class was given command(COMMON, word=WordArguments), and its call
\* follows the branch build, which was the keyword of the first class only
C25_KeywordBranchLeaks ==
    /\ cls = "SecondArguments"
    /\ argv = <<"build", "a">>
    /\ pc = "returned"
    /\ BranchNames(declared.COMMON) = {"clean", "build", "word"}
    /\ BranchNames(declared.descriptors[2].options) = {"clean", "build", "word"}
    /\ BranchNames(declared.descriptors[1].options) = {"clean", "build"}
    /\ result.val.v["command"].cls = "BuildArguments"

(***************************************************************************)
(* C26: how often the element converter is applied to a token and to a     *)
(* supplied default, for Positional and Option of argument/value.py.       *)
(***************************************************************************)
\* the fields of c declared with convert=mark, a converter that is not
\* idempotent
Marked(c) ==
    {j \in 1..Len(fields(c)) :
        /\ fields(c)[j].default.kind \in {"Positional", "Option"}
        /\ fields(c)[j].default.convert = "mark"}

\* the converter applied exactly once to a token of the vector, or to the
\* supplied default
MarkedOnce(self, v) ==
    {Call("mark", VStr(v[k])).val : k \in 1..Len(v)}
        \cup (IF self.default = NOTHING THEN {} ELSE {Call("mark", self.default).val})

\* C26: a field of the value family holds the converter applied once to its
\* token, c(token) and never c(c(token)), and a supplied default converted
\* once
C26_ConvertedExactlyOnce ==
    (pc = "returned" /\ Marked(cls) # {}) =>
        \A j \in Marked(cls) :
            result.val.v[fields(cls)[j].name] \in MarkedOnce(fields(cls)[j].default, argv)

\* the token a came back as a!!, and the omitted option's default d as d!!!
C26_ConvertedAgain ==
    /\ cls = "MarkArguments"
    /\ argv = <<"a">>
    /\ pc = "returned"
    /\ result.val.v["word"] = VStr("a!!")
    /\ result.val.v["tag"] = VStr("d!!!")
    /\ Call("mark", Call("mark", VStr("a")).val).val = VStr("a!!")

(***************************************************************************)
(* C27: which vectors pre-validation rejects with the Conflict error.      *)
(***************************************************************************)
\* container c declares switches and Command fields only, so that every word
\* of a vector is a branch selection
SwitchTree(c) ==
    \A i \in 1..Len(fields(c)) : fields(c)[i].default.kind \in {"Switch", "Command"}

\* the index of the first token of v that is no option token, 0 for none
FirstWord(v) ==
    IF \E j \in 1..Len(v) : ~StartsWith(v[j], "-")
    THEN CHOOSE j \in 1..Len(v) :
            ~StartsWith(v[j], "-") /\ \A k \in 1..(j - 1) : StartsWith(v[k], "-")
    ELSE 0

\* the tokens container c itself is given: those before the branch selection
OwnTokens(v) == IF FirstWord(v) = 0 THEN v ELSE SubSeq(v, 1, FirstWord(v) - 1)

\* some switch field, of c or of the branch the vector selects, would itself
\* receive both of its tokens
RECURSIVE ReceivesBoth(_, _)
ReceivesBoth(c, v) ==
    \/ Conflicting(c, OwnTokens(v)) # {}
    \/ /\ FirstWord(v) > 0
       /\ \E i \in FieldsOfKind(c, "Command") :
             \E k \in 1..Len(fields(c)[i].default.options) :
                /\ fields(c)[i].default.options[k].name = v[FirstWord(v)]
                /\ ReceivesBoth(fields(c)[i].default.options[k].cls,
                                SubSeq(v, FirstWord(v) + 1, Len(v)))

\* C27: pre-validation raises the Conflict error only when a single switch
\* field would itself receive both of its tokens; the enable token given to a
\* switch of the root and the disable token given to the switch of the same
\* name in the selected branch are not rejected
C27_ConflictOnlyWithinOneSwitch ==
    (/\ pc = "raised"
     /\ phases = <<"build", "pre_validate">>
     /\ result.exc = "InvalidArgumentsError"
     /\ SwitchTree(cls)) => ReceivesBoth(cls, argv)

\* --dry is given to the root's switch and --no-dry to the switch of the
\* branch fast: the tokenizer gives each field one token, and the call is
\* rejected with a Conflict error that names the root
C27_RootAndBranchSwitchRejected ==
    /\ cls = "DryArguments"
    /\ argv = <<"--dry", "fast", "--no-dry">>
    /\ pc = "raised"
    /\ phases = <<"build", "pre_validate">>
    /\ result.exc = "InvalidArgumentsError"
    /\ NamesConflict(result.msg, "DryArguments", fields("DryArguments")[1])
    /\ ~ReceivesBoth(cls, argv)
    /\ parser_parse_args(parser, argv).ok
    /\ parser_parse_args(parser, argv).val["dry"] = VBool(TRUE)
    /\ parser_parse_args(parser, argv).val["mode-dry"] = VBool(FALSE)

(***************************************************************************)
(* C28: the default a boolean switch takes from its environment variable.  *)
(***************************************************************************)
\* the switch fields of c that name an environment variable
EnvSwitches(c) ==
    {i \in FieldsOfKind(c, "Switch") : fields(c)[i].default.env_var # ""}

\* no token of v addresses the switch of field f, in full or abbreviated
NoTokenFor(f, v) ==
    \A j \in 1..Len(v) :
        \/ Len(v[j]) <= 2
        \/ /\ ~IsPrefix(v[j], "--" \o SwitchNameOf(f))
           /\ ~IsPrefix(v[j], "--no-" \o SwitchNameOf(f))

\* the boolean the texts of a variable stand for: true and 1 are true
Spelled(setting) == VBool(setting[1] \in {"true", "1"})

\* C28: a boolean switch with an environment variable and no switch token is
\* true when the variable is 'true' or '1', false when it is 'false', '0' or
\* empty, and its static default when the variable is unset
C28_EnvSpellsBoolean ==
    pc = "returned" =>
        \A i \in EnvSwitches(cls) :
            NoTokenFor(fields(cls)[i], argv) =>
                result.val.v[fields(cls)[i].name]
                    = IF getenv(env, fields(cls)[i].default.env_var) = <<>>
                      THEN fields(cls)[i].default.default
                      ELSE Spelled(getenv(env, fields(cls)[i].default.env_var))

\* SWITCH_VAR is 'false' and no token was given: the switch is true
C28_FalseReadAsTrue ==
    /\ cls = "SwitchArguments"
    /\ argv = <<>>
    /\ pc = "returned"
    /\ env["SWITCH_VAR"] = <<"false">>
    /\ fields(cls)[1].default.default = VBool(FALSE)
    /\ result.val.v["enabled"] = VBool(TRUE)

(***************************************************************************)
(* C29: an option declared required=False without default, when omitted.   *)
(***************************************************************************)
\* the fields of c that are options of a non-collection type, declared
\* required=False and without default
OptionalOptions(c) ==
    {i \in FieldsOfKind(c, "Option") :
        /\ fields(c)[i].default.required = "False"
        /\ fields(c)[i].default.default = NOTHING
        /\ collection_factory(resolve_type(fields(c)[i])) = ""}

\* no token of v is an option name of field f
Omitted(f, v) == \A j \in 1..Len(v) : v[j] \notin option_names(f.default, f)

\* C29: when an option of a non-collection type declared required=False and
\* without default is omitted, extraction returns, the field's value is null,
\* and no Conversion error is raised
C29_OmittedOptionIsNull ==
    (/\ phases = PhaseOrder
     /\ pc \in {"returned", "raised"}
     /\ OptionalOptions(cls) # {}
     /\ \A i \in OptionalOptions(cls) : Omitted(fields(cls)[i], argv)) =>
        /\ pc = "returned"
        /\ \A i \in OptionalOptions(cls) : result.val.v[fields(cls)[i].name] = VNone

\* --limit was omitted: the tokenizer left null in the namespace, and the
\* extraction raised the Conversion error on it
C29_NullConverted ==
    /\ cls = "LimitArguments"
    /\ argv = <<"--after">>
    /\ OptionalOptions(cls) = {1}
    /\ phases = PhaseOrder
    /\ namespace["limit"] = VNone
    /\ pc = "raised"
    /\ result.exc = "ValueError"
    /\ Contains(result.msg, "Failed to convert argument value None")

====
